---- MODULE Spec2Model ----
(***************************************************************************)
(* Model of the MCP integration gateway: the gh-mcp server (GitHub REST    *)
(* tools and local git tools) and the slack-mcp server (webhook tools).    *)
(*                                                                         *)
(* A JavaScript string is a sequence of one-character strings, so that     *)
(* trim, prefix stripping, split and join are computed, not assumed.       *)
(* One process is modelled at a time (server = "gh-mcp" or "slack-mcp");   *)
(* a tool handler runs atomically up to its first await, and every         *)
(* backend event (HTTP response, fetch rejection, fs access result,        *)
(* child process event) is a separate action.                              *)
(***************************************************************************)
EXTENDS Integers, Sequences, FiniteSets, TLC

VARIABLES
    server,     \* which process this is: "gh-mcp" or "slack-mcp"
    build,      \* the source file the process's tools come from
    env,        \* the environment variables the process was started with
    exitCode,   \* the code the process exited with; "none" while it runs
    config,     \* the configuration object returned by resolveConfig()
    pc,         \* position of the current invocation
    tool,       \* name of the tool being served
    rawArgs,    \* the raw argument payload of the invocation
    call,       \* values the suspended handler keeps across its await
    requests,   \* fetch() calls issued during the current invocation
    spawns,     \* child processes spawned during the current invocation
    child,      \* state of the spawned git child process
    stdout,     \* captured stdout of the child
    stderr,     \* captured stderr of the child
    exit,       \* the code the child's "close" event carried
    response,   \* the HTTP response the pending fetch resolved with
    outcome,    \* how the handler ended: a returned result or a thrown error
    inflight,   \* the invocations suspended at an await, when several run at once
    lifecycle   \* signal listeners, shutdown runs and their close() calls

vars == <<inflight, lifecycle, server, build, env, exitCode, config, pc, tool, rawArgs, call, requests, spawns, child,
          stdout, stderr, exit, response, outcome>>

---------------------------------------------------------------------------
(* JavaScript values *)

\* undefined: a value that is not a string (no string has a long element)
Absent == <<"undefined">>

\* a value of the wrong primitive type where a string is expected
NotAString == <<"number">>

IsString(v) == v # Absent /\ v # NotAString

\* truthiness of a string | undefined value
Truthy(v) == v # Absent /\ v # <<>>

\* a ?? b
Coalesce(a, b) == IF a # Absent THEN a ELSE b

\* a || b
OrElse(a, b) == IF Truthy(a) THEN a ELSE b

\* an absent or present raw number
NoNum == [none |-> TRUE]

Num(n) == [n |-> n]

StartsWith(s, p) == Len(s) >= Len(p) /\ SubSeq(s, 1, Len(p)) = p

IsSpace(c) == c \in {" ", "\t", "\n"}

RECURSIVE TrimStart(_)
TrimStart(s) ==
    IF s # <<>> /\ IsSpace(Head(s)) THEN TrimStart(Tail(s)) ELSE s

RECURSIVE TrimEnd(_)
TrimEnd(s) ==
    IF s # <<>> /\ IsSpace(s[Len(s)])
    THEN TrimEnd(SubSeq(s, 1, Len(s) - 1))
    ELSE s

\* String.prototype.trim
Trim(s) == TrimEnd(TrimStart(s))

\* String.prototype.split("/"): the segments between the separators
RECURSIVE SplitFrom(_, _, _)
SplitFrom(s, sep, cur) ==
    IF s = <<>> THEN <<cur>>
    ELSE IF Head(s) = sep THEN <<cur>> \o SplitFrom(Tail(s), sep, <<>>)
    ELSE SplitFrom(Tail(s), sep, Append(cur, Head(s)))

Split(s, sep) == SplitFrom(s, sep, <<>>)

\* Array.prototype.join(sep)
RECURSIVE Join(_, _)
Join(parts, sep) ==
    IF parts = <<>> THEN <<>>
    ELSE IF Len(parts) = 1 THEN parts[1]
    ELSE parts[1] \o <<sep>> \o Join(Tail(parts), sep)

\* characters encodeURIComponent leaves alone
Unreserved ==
    {"a", "b", "c", "d", "e", "f", "g", "h", "i", "j", "k", "l", "m", "n",
     "o", "p", "q", "r", "s", "t", "u", "v", "w", "x", "y", "z",
     "0", "1", "2", "3", "4", "5", "6", "7", "8", "9",
     "-", "_", ".", "!", "~", "*", "'", "(", ")"}

PercentCode(c) ==
    CASE c = " " -> <<"%", "2", "0">>
      [] c = "/" -> <<"%", "2", "F">>
      [] c = "?" -> <<"%", "3", "F">>
      [] c = "#" -> <<"%", "2", "3">>
      [] c = ":" -> <<"%", "3", "A">>
      [] OTHER   -> <<"%", "0", "0">>

RECURSIVE encodeURIComponent(_)
encodeURIComponent(s) ==
    IF s = <<>> THEN <<>>
    ELSE (IF Head(s) \in Unreserved THEN <<Head(s)>> ELSE PercentCode(Head(s)))
         \o encodeURIComponent(Tail(s))

\* parts.map(encodeURIComponent)
MapEncode(parts) == [i \in 1..Len(parts) |-> encodeURIComponent(parts[i])]

---------------------------------------------------------------------------
(* String literals of the source *)

Main == <<"m", "a", "i", "n">>

RefsHeadsPrefix == <<"r", "e", "f", "s", "/", "h", "e", "a", "d", "s", "/">>

RefsPrefix == <<"r", "e", "f", "s", "/">>

ReposPath == <<"/", "r", "e", "p", "o", "s", "/">>

GitRefsHeadsPath ==
    <<"/", "g", "i", "t", "/", "r", "e", "f", "s", "/", "h", "e", "a", "d", "s", "/">>

GitRefsPath == <<"/", "g", "i", "t", "/", "r", "e", "f", "s">>

\* variant: the prefix is kept
StripRefsHeads_Keep(branch) == branch

\* branch.replace(/^refs\/heads\//, ""): strips one leading occurrence
StripRefsHeads(branch) ==
    IF StartsWith(branch, RefsHeadsPrefix)
    THEN SubSeq(branch, Len(RefsHeadsPrefix) + 1, Len(branch))
    ELSE branch

---------------------------------------------------------------------------
(* gh-mcp: configuration (src/unnamed/part_008, config.ts part) *)

DefaultUserAgent ==
    <<"g", "h", "-", "m", "c", "p", "-", "s", "e", "r", "v", "e", "r", "/", "0", ".", "1", " ", "(", "+", "h", "t", "t", "p", "s", ":", "/", "/", "g", "i", "t", "h", "u", "b", ".", "c", "o", "m", ")">>

\* the environments the gh-mcp process may be started in
GhEnvs ==
    [GITHUB_TOKEN : {Absent, <<>>, <<"t">>},
     GITHUB_DEFAULT_OWNER : {Absent, <<>>, <<"d">>},
     GITHUB_USER_AGENT : {Absent}]
    \cup
    {[GITHUB_TOKEN |-> <<" ">>, GITHUB_DEFAULT_OWNER |-> Absent,
      GITHUB_USER_AGENT |-> Absent],
     [GITHUB_TOKEN |-> <<"t">>, GITHUB_DEFAULT_OWNER |-> <<" ", "d">>,
      GITHUB_USER_AGENT |-> <<>>],
     [GITHUB_TOKEN |-> <<"t", " ">>, GITHUB_DEFAULT_OWNER |-> <<" ">>,
      GITHUB_USER_AGENT |-> <<"a">>]}

\* resolveConfig() of gh-mcp: throws when the token is missing or empty
GhResolveConfig(e) ==
    LET token == Coalesce(e.GITHUB_TOKEN, <<>>) IN
    IF ~Truthy(token)
    THEN [ok |-> FALSE,
          error |-> "Missing GitHub token. Set the GITHUB_TOKEN environment variable."]
    ELSE [ok |-> TRUE,
          value |-> [token |-> token,
                     userAgent |-> Coalesce(e.GITHUB_USER_AGENT, DefaultUserAgent),
                     defaultOwner |-> e.GITHUB_DEFAULT_OWNER]]

NoConfig == [none |-> TRUE]

\* the GitHubClient constructor: throws "GitHub token is required" when
\* the token is falsy
GitHubClient(token) == Truthy(token)

---------------------------------------------------------------------------
(* gh-mcp: GitHubClient (src/servers/gh-mcp/src/githubClient.ts) *)

NoBody == [none |-> TRUE]

NoSearch == [none |-> TRUE]

MaxPerPage == 100

Max(a, b) == IF a >= b THEN a ELSE b

Min(a, b) == IF a <= b THEN a ELSE b

\* variant: only the upper limit is applied
ClampPerPage_NoLower(perPage) == Min(perPage, MaxPerPage)

\* Math.max(1, Math.min(perPage, 100))
ClampPerPage(perPage) == Max(1, Min(perPage, MaxPerPage))

Digit(d) == <<"0", "1", "2", "3", "4", "5", "6", "7", "8", "9">>[d + 1]

\* template interpolation of a non-negative integer
RECURSIVE NumToStr(_)
NumToStr(n) ==
    IF n < 10 THEN <<Digit(n)>> ELSE NumToStr(n \div 10) \o <<Digit(n % 10)>>

Str_orgs == <<"/", "o", "r", "g", "s", "/">>

Str_users == <<"/", "u", "s", "e", "r", "s", "/">>

Str_repos == <<"/", "r", "e", "p", "o", "s">>

Str_user_repos == <<"/", "u", "s", "e", "r", "/", "r", "e", "p", "o", "s">>

Str_issues == <<"/", "i", "s", "s", "u", "e", "s", "/">>

Str_search_issues == <<"/", "s", "e", "a", "r", "c", "h", "/", "i", "s", "s", "u", "e", "s">>

Str_rate_limit == <<"/", "r", "a", "t", "e", "_", "l", "i", "m", "i", "t">>

Str_pulls == <<"/", "p", "u", "l", "l", "s">>

Str_reviews == <<"/", "r", "e", "v", "i", "e", "w", "s">>

Str_merge == <<"/", "m", "e", "r", "g", "e">>

Str_commits == <<"/", "c", "o", "m", "m", "i", "t", "s", "/">>

Str_status == <<"/", "s", "t", "a", "t", "u", "s">>

\* `/repos/${owner}/${repo}`
RepoPath(owner, repo) == ReposPath \o owner \o <<"/">> \o repo

\* what a client method hands to this.request(path, options)
Req(path, method, search, body) ==
    [path |-> path, method |-> method, search |-> search, body |-> body]

listRepositories(owner, ownerType, perPage, includePrivate) ==
    LET searchParams ==
            [per_page |-> ClampPerPage(perPage), sort |-> "pushed",
             visibility |-> IF includePrivate THEN "all" ELSE "unset"]
        path == IF Truthy(owner)
                THEN (IF ownerType = "org"
                      THEN Str_orgs \o owner \o Str_repos
                      ELSE Str_users \o owner \o Str_repos)
                ELSE Str_user_repos
    IN Req(path, "default", searchParams, NoBody)

getIssue(owner, repo, issueNumber) ==
    Req(RepoPath(owner, repo) \o Str_issues \o NumToStr(issueNumber),
        "default", NoSearch, NoBody)

searchIssues(query, perPage) ==
    Req(Str_search_issues, "default",
        [q |-> query, per_page |-> ClampPerPage(perPage)], NoBody)

getRateLimit == Req(Str_rate_limit, "default", NoSearch, NoBody)

createPullRequest(owner, repo, title, head, base) ==
    Req(RepoPath(owner, repo) \o Str_pulls, "POST", NoSearch,
        [title |-> title, head |-> head, base |-> base])

approvePullRequest(owner, repo, pullNumber) ==
    Req(RepoPath(owner, repo) \o Str_pulls \o <<"/">> \o NumToStr(pullNumber)
            \o Str_reviews,
        "POST", NoSearch, [event |-> "APPROVE"])

mergePullRequest(owner, repo, pullNumber, mergeMethod) ==
    Req(RepoPath(owner, repo) \o Str_pulls \o <<"/">> \o NumToStr(pullNumber)
            \o Str_merge,
        "PUT", NoSearch, [merge_method |-> mergeMethod])

createBranch(owner, repo, branch, sha) ==
    LET ref == IF StartsWith(branch, RefsPrefix)
               THEN branch
               ELSE RefsHeadsPrefix \o branch
    IN Req(RepoPath(owner, repo) \o GitRefsPath, "POST", NoSearch,
           [ref |-> ref, sha |-> sha])

\* normalized.split("/").map(encodeURIComponent).join("/")
BranchPath(normalized) == Join(MapEncode(Split(normalized, "/")), "/")

updateBranch(owner, repo, branch, sha, force) ==
    LET normalizedBranch == StripRefsHeads(branch) IN
    Req(RepoPath(owner, repo) \o GitRefsHeadsPath \o BranchPath(normalizedBranch),
        "PATCH", NoSearch, [sha |-> sha, force |-> force])

deleteBranch(owner, repo, branch) ==
    LET normalized == StripRefsHeads(branch) IN
    Req(RepoPath(owner, repo) \o GitRefsHeadsPath \o BranchPath(normalized),
        "DELETE", NoSearch, NoBody)

getCommitStatus(owner, repo, ref) ==
    Req(RepoPath(owner, repo) \o Str_commits \o encodeURIComponent(ref)
            \o Str_status,
        "default", NoSearch, NoBody)


\* the part of a relative reference before its query or fragment
RECURSIVE BeforeQuery(_)
BeforeQuery(s) ==
    IF s = <<>> THEN <<>>
    ELSE IF Head(s) \in {"?", "#"} THEN <<>>
    ELSE <<Head(s)>> \o BeforeQuery(Tail(s))

\* the URL parser's path state: a ".." segment removes the segment before
\* it, a "." segment is dropped, and either one in last place leaves an
\* empty segment behind
RECURSIVE RemoveDotSegments(_, _)
RemoveDotSegments(segments, out) ==
    IF segments = <<>> THEN out
    ELSE LET seg == Head(segments)
             last == Len(segments) = 1
         IN  IF seg = <<".", ".">>
             THEN RemoveDotSegments(Tail(segments),
                      (IF out = <<>> THEN out ELSE SubSeq(out, 1, Len(out) - 1))
                          \o (IF last THEN << <<>> >> ELSE <<>>))
             ELSE IF seg = <<".">>
             THEN RemoveDotSegments(Tail(segments),
                      out \o (IF last THEN << <<>> >> ELSE <<>>))
             ELSE RemoveDotSegments(Tail(segments), Append(out, seg))

\* new URL(path, this.baseUrl).pathname for a path that starts with "/"
URLPathname(path) ==
    <<"/">> \o Join(RemoveDotSegments(Tail(Split(BeforeQuery(path), "/")), <<>>), "/")

\* variant: the request is sent a second time
request_Retry(req) ==
    LET sent == [method |-> IF req.method # "default" THEN req.method
                            ELSE IF req.body # NoBody THEN "POST" ELSE "GET",
                 path |-> req.path,
                 pathname |-> URLPathname(req.path),
                 search |-> req.search,
                 body |-> req.body,
                 auth |-> config.token,
                 userAgent |-> config.userAgent]
    IN <<sent, sent>>

\* GitHubClient.request: the fetch() calls one client call performs
\* (method: options.method ?? (body ? "POST" : "GET"))
request(req) ==
    << [method |-> IF req.method # "default" THEN req.method
                   ELSE IF req.body # NoBody THEN "POST" ELSE "GET",
        path |-> req.path,
        pathname |-> URLPathname(req.path),
        search |-> req.search,
        body |-> req.body,
        auth |-> config.token,
        userAgent |-> config.userAgent] >>

---------------------------------------------------------------------------
(* Outcomes of a handler (toolText / toolError of part_008, or a throw) *)

NoInfo == [none |-> TRUE]

NoOutcome == [kind |-> "none", isError |-> FALSE, error |-> "none",
              text |-> "", info |-> NoInfo]

toolText(text) ==
    [kind |-> "result", isError |-> FALSE, error |-> "none",
     text |-> text, info |-> NoInfo]

toolError(message) ==
    [kind |-> "result", isError |-> TRUE, error |-> "none",
     text |-> message, info |-> NoInfo]

\* the handler's promise rejects: the exception leaves the handler
Thrown(name, message, info) ==
    [kind |-> "thrown", isError |-> FALSE, error |-> name,
     text |-> message, info |-> info]

\* what a handler has done when it first yields: returned, thrown, or
\* suspended on fetch / fs access with the values it will need afterwards
Return(o) == [next |-> "done", outcome |-> o, fetches |-> <<>>, keep |-> NoInfo]

AwaitFetch(fetches, keep) ==
    [next |-> "fetch", outcome |-> NoOutcome, fetches |-> fetches, keep |-> keep]

AwaitAccess(keep) ==
    [next |-> "access", outcome |-> NoOutcome, fetches |-> <<>>, keep |-> keep]

ZodError == Thrown("ZodError", "schema validation failed", NoInfo)

---------------------------------------------------------------------------
(* zod schemas of the gh-mcp tools (part_008, part_007) *)

\* z.string().min(n)
ZString(v, min) == IsString(v) /\ Len(v) >= min

\* z.string().optional()
ZOptString(v) == v = Absent \/ IsString(v)

\* z.boolean().default(false): raw booleans are "absent", "true", "false"
\* or "bad" (a value of another type)
ZBoolDefault(v) == v \in {"absent", "true", "false"}

\* z.number().int().min(lo).max(hi).default(d)
ZIntRangeDefault(v, lo, hi) == v = NoNum \/ (v.n >= lo /\ v.n <= hi)

\* z.number().int().positive()
ZPositiveInt(v) == v # NoNum /\ v.n > 0

DefaultListPerPage == 20

DefaultSearchPerPage == 10

listRepositoriesArgsValid(raw) ==
    /\ ZOptString(raw.owner)
    /\ raw.ownerType \in {"absent", "user", "org"}
    /\ ZIntRangeDefault(raw.perPage, 1, MaxPerPage)
    /\ ZBoolDefault(raw.includePrivate)

\* the parsed arguments, schema defaults applied
listRepositoriesArgsParse(raw) ==
    [owner |-> raw.owner,
     ownerType |-> IF raw.ownerType = "absent" THEN "user" ELSE raw.ownerType,
     perPage |-> IF raw.perPage = NoNum THEN DefaultListPerPage ELSE raw.perPage.n,
     includePrivate |-> raw.includePrivate = "true"]

\* owner?, repo: z.string(), branch: min(1), sha: min(1)
branchArgsValid(raw) ==
    /\ ZOptString(raw.owner)
    /\ ZString(raw.repo, 0)
    /\ ZString(raw.branch, 1)
    /\ ZString(raw.sha, 1)

updateBranchArgsValid(raw) == branchArgsValid(raw) /\ ZBoolDefault(raw.force)

getCommitStatusArgsValid(raw) ==
    ZOptString(raw.owner) /\ ZString(raw.repo, 0) /\ ZString(raw.ref, 1)

deleteRemoteBranchArgsValid(raw) ==
    ZOptString(raw.owner) /\ ZString(raw.repo, 0) /\ ZString(raw.branch, 1)

createPullRequestArgsValid(raw) ==
    /\ ZOptString(raw.owner)
    /\ ZString(raw.repo, 0)
    /\ ZString(raw.title, 1)
    /\ ZString(raw.head, 1)
    /\ ZString(raw.base, 1)

pullNumberArgsValid(raw) ==
    ZOptString(raw.owner) /\ ZString(raw.repo, 0) /\ ZPositiveInt(raw.pullNumber)

mergePullRequestArgsValid(raw) ==
    /\ pullNumberArgsValid(raw)
    /\ raw.mergeMethod \in {"absent", "merge", "squash", "rebase"}

getIssueArgsValid(raw) ==
    ZOptString(raw.owner) /\ ZString(raw.repo, 0) /\ ZPositiveInt(raw.issueNumber)

searchIssuesArgsValid(raw) ==
    ZString(raw.query, 1) /\ ZIntRangeDefault(raw.perPage, 1, MaxPerPage)

---------------------------------------------------------------------------
(* gh-mcp tool handlers, up to the first await *)

ProvideOwner == "Provide an owner argument or set GITHUB_DEFAULT_OWNER."

\* args.owner ?? config.defaultOwner
ResolveOwner(raw) == Coalesce(raw.owner, config.defaultOwner)


\* variant: the owner default is resolved and checked before the payload
\* is validated
listRepositoriesHandler_DefaultsFirst(raw) ==
    IF ~Truthy(ResolveOwner(raw)) /\ raw.ownerType = "org"
    THEN Return(toolError(
            "Specify an organization via the owner argument or GITHUB_DEFAULT_OWNER."))
    ELSE IF ~listRepositoriesArgsValid(raw) THEN Return(ZodError)
    ELSE LET args == listRepositoriesArgsParse(raw) IN
         AwaitFetch(request(listRepositories(ResolveOwner(raw), args.ownerType,
                        args.perPage, args.includePrivate)), NoInfo)

\* variant: the handler without its check that an organization is named
listRepositoriesHandler_NoOrgCheck(raw) ==
    IF ~listRepositoriesArgsValid(raw) THEN Return(ZodError)
    ELSE LET args == listRepositoriesArgsParse(raw) IN
         AwaitFetch(request(listRepositories(ResolveOwner(raw), args.ownerType,
                        args.perPage, args.includePrivate)), NoInfo)

listRepositoriesHandler(raw) ==
    IF ~listRepositoriesArgsValid(raw) THEN Return(ZodError)
    ELSE
        LET args == listRepositoriesArgsParse(raw)
            owner == ResolveOwner(raw)
        IN IF ~Truthy(owner) /\ args.ownerType = "org"
           THEN Return(toolError(
                "Specify an organization via the owner argument or GITHUB_DEFAULT_OWNER."))
           ELSE AwaitFetch(request(listRepositories(owner, args.ownerType,
                               args.perPage, args.includePrivate)), NoInfo)

createBranchHandler(raw) ==
    IF ~branchArgsValid(raw) THEN Return(ZodError)
    ELSE LET owner == ResolveOwner(raw) IN
         IF ~Truthy(owner) THEN Return(toolError(ProvideOwner))
         ELSE AwaitFetch(request(createBranch(owner, raw.repo, raw.branch, raw.sha)),
                         NoInfo)

updateBranchHandler(raw) ==
    IF ~updateBranchArgsValid(raw) THEN Return(ZodError)
    ELSE LET owner == ResolveOwner(raw) IN
         IF ~Truthy(owner) THEN Return(toolError(ProvideOwner))
         ELSE AwaitFetch(request(updateBranch(owner, raw.repo, raw.branch, raw.sha,
                                              raw.force = "true")), NoInfo)

getCommitStatusHandler(raw) ==
    IF ~getCommitStatusArgsValid(raw) THEN Return(ZodError)
    ELSE LET owner == ResolveOwner(raw) IN
         IF ~Truthy(owner) THEN Return(toolError(ProvideOwner))
         ELSE AwaitFetch(request(getCommitStatus(owner, raw.repo, raw.ref)), NoInfo)


\* variant: the handler without its guard on the protected branch
deleteRemoteBranchHandler_NoGuard(raw) ==
    IF ~deleteRemoteBranchArgsValid(raw) THEN Return(ZodError)
    ELSE LET owner == ResolveOwner(raw) IN
         IF ~Truthy(owner) THEN Return(toolError(ProvideOwner))
         ELSE AwaitFetch(request(deleteBranch(owner, raw.repo,
                                              StripRefsHeads(raw.branch))), NoInfo)

deleteRemoteBranchHandler(raw) ==
    IF ~deleteRemoteBranchArgsValid(raw) THEN Return(ZodError)
    ELSE LET owner == ResolveOwner(raw) IN
         IF ~Truthy(owner) THEN Return(toolError(ProvideOwner))
         ELSE LET normalized == StripRefsHeads(raw.branch) IN
              IF normalized = Main
              THEN Return(toolError("Refusing to delete the remote main branch."))
              ELSE AwaitFetch(request(deleteBranch(owner, raw.repo, normalized)),
                              NoInfo)

createPullRequestHandler(raw) ==
    IF ~createPullRequestArgsValid(raw) THEN Return(ZodError)
    ELSE LET owner == ResolveOwner(raw) IN
         IF ~Truthy(owner) THEN Return(toolError(ProvideOwner))
         ELSE AwaitFetch(request(createPullRequest(owner, raw.repo, raw.title,
                                                   raw.head, raw.base)), NoInfo)

approvePullRequestHandler(raw) ==
    IF ~pullNumberArgsValid(raw) THEN Return(ZodError)
    ELSE LET owner == ResolveOwner(raw) IN
         IF ~Truthy(owner) THEN Return(toolError(ProvideOwner))
         ELSE AwaitFetch(request(approvePullRequest(owner, raw.repo,
                                                    raw.pullNumber.n)), NoInfo)

mergePullRequestHandler(raw) ==
    IF ~mergePullRequestArgsValid(raw) THEN Return(ZodError)
    ELSE LET owner == ResolveOwner(raw)
             mergeMethod == IF raw.mergeMethod = "absent" THEN "merge"
                            ELSE raw.mergeMethod
         IN IF ~Truthy(owner) THEN Return(toolError(ProvideOwner))
            ELSE AwaitFetch(request(mergePullRequest(owner, raw.repo,
                                        raw.pullNumber.n, mergeMethod)), NoInfo)

getIssueHandler(raw) ==
    IF ~getIssueArgsValid(raw) THEN Return(ZodError)
    ELSE LET owner == ResolveOwner(raw) IN
         IF ~Truthy(owner) THEN Return(toolError(ProvideOwner))
         ELSE AwaitFetch(request(getIssue(owner, raw.repo, raw.issueNumber.n)),
                         NoInfo)

searchIssuesHandler(raw) ==
    IF ~searchIssuesArgsValid(raw) THEN Return(ZodError)
    ELSE AwaitFetch(request(searchIssues(raw.query,
                        IF raw.perPage = NoNum THEN DefaultSearchPerPage
                        ELSE raw.perPage.n)), NoInfo)

\* the github://rate-limit resource read takes no arguments
rateLimitHandler == AwaitFetch(request(getRateLimit), NoInfo)

---------------------------------------------------------------------------
(* gh-mcp: local git adapter (src/unnamed/part_006, gitLocal.ts) *)

\* the process working directory, against which path.resolve works
Cwd == <<"/", "w">>

\* the file system the process runs on: the directories that exist and
\* those of them that hold a .git entry
ExistingPaths == {<<"/", "n">>, <<"/", "w", "/", "r">>}

GitRepos == {<<"/", "w", "/", "r">>}

\* path.resolve(repoPath)
resolve(repoPath) ==
    IF StartsWith(repoPath, <<"/">>) THEN repoPath
    ELSE Cwd \o <<"/">> \o repoPath

GitLocalError(message, info, details) ==
    [name |-> "GitLocalError", message |-> message, info |-> info,
     details |-> details]

\* handleGitError: the caught error becomes an isError result whose text is
\* the message, followed by a newline and the details when there are any
handleGitError(error) ==
    [kind |-> "result", isError |-> TRUE, error |-> "none",
     text |-> error.message,
     info |-> [args |-> error.info,
               details |-> IF Truthy(error.details)
                           THEN <<"\n">> \o error.details
                           ELSE <<>>]]

\* ensureRepoPath, synchronous part: rejects an empty path, otherwise
\* resolves it and starts the first access() check
ensureRepoPathStart(repoPath, argv) ==
    IF ~Truthy(repoPath)
    THEN Return(handleGitError(GitLocalError(
            "Repository path is required for local git commands.", NoInfo, Absent)))
    ELSE AwaitAccess([resolved |-> resolve(repoPath), argv |-> argv])

\* runGitCommand starts with ensureRepoPath
runGitCommand(repoPath, argv) == ensureRepoPathStart(repoPath, argv)

createLocalBranch(repoPath, branch, startPoint) ==
    runGitCommand(repoPath,
        <<<<"c", "h", "e", "c", "k", "o", "u", "t">>, <<"-", "b">>, branch>>
            \o (IF Truthy(startPoint) THEN <<startPoint>> ELSE <<>>))

getStatus(repoPath) ==
    runGitCommand(repoPath, <<<<"s", "t", "a", "t", "u", "s">>, <<"-", "-", "s", "h", "o", "r", "t">>, <<"-", "-", "b", "r", "a", "n", "c", "h">>>>)

\* options.paths?.length ? options.paths : ["."]
stageChanges(repoPath, paths) ==
    runGitCommand(repoPath,
        <<<<"a", "d", "d">>, <<"-", "-">>>>
            \o (IF paths.given /\ Len(paths.items) > 0 THEN paths.items
                ELSE << <<".">> >>))

createCommit(repoPath, message, allowEmpty, signoff) ==
    runGitCommand(repoPath,
        <<<<"c", "o", "m", "m", "i", "t">>, <<"-", "m">>, message>>
            \o (IF allowEmpty THEN <<<<"-", "-", "a", "l", "l", "o", "w", "-", "e", "m", "p", "t", "y">>>> ELSE <<>>)
            \o (IF signoff THEN <<<<"-", "-", "s", "i", "g", "n", "o", "f", "f">>>> ELSE <<>>))

deleteLocalBranch(repoPath, branch, force) ==
    LET normalized == Trim(branch) IN
    IF ~Truthy(normalized)
    THEN Return(handleGitError(GitLocalError(
            "Branch name is required to delete a local branch.", NoInfo, Absent)))
    ELSE IF normalized = Main
    THEN Return(handleGitError(GitLocalError(
            "Refusing to delete the main branch locally.", NoInfo, Absent)))
    ELSE runGitCommand(repoPath,
            <<<<"b", "r", "a", "n", "c", "h">>, IF force THEN <<"-", "D">> ELSE <<"-", "d">>, normalized>>)

\* spawn("git", args, { cwd }): the child processes one runGitCommand starts
spawn(argv, cwd) == << [command |-> "git", argv |-> argv, cwd |-> cwd] >>

\* variant: the close handler resolves whatever the exit code
closeResult_IgnoreCode(code, argv, out, err) ==
    [ok |-> TRUE, stdout |-> Trim(out), stderr |-> Trim(err)]

\* the close handler of runGitCommand: code is "0", another number, or
\* "null" when the child was killed by a signal
closeResult(code, argv, out, err) ==
    IF code # "0"
    THEN [ok |-> FALSE,
          error |-> GitLocalError("git <args> exited with code <code>",
                                  [argv |-> argv, code |-> code],
                                  OrElse(Trim(err), Absent))]
    ELSE [ok |-> TRUE, stdout |-> Trim(out), stderr |-> Trim(err)]

\* the error handler of runGitCommand
errorResult(argv) ==
    [ok |-> FALSE,
     error |-> GitLocalError("Failed to execute git command: git <args>",
                             [argv |-> argv], <<"E">>)]

---------------------------------------------------------------------------
(* gh-mcp: local git tool handlers (part_008) *)

\* localRepositoryArgs: repoPath: z.string().min(1)
localRepositoryArgsValid(raw) == ZString(raw.repoPath, 1)

createLocalBranchArgsValid(raw) ==
    /\ localRepositoryArgsValid(raw)
    /\ ZString(raw.branch, 1)
    /\ ZOptString(raw.startPoint)

\* paths: z.array(z.string().min(1)).optional()
stageChangesArgsValid(raw) ==
    /\ localRepositoryArgsValid(raw)
    /\ (raw.paths.given =>
            \A i \in 1..Len(raw.paths.items) : ZString(raw.paths.items[i], 1))

createCommitArgsValid(raw) ==
    /\ localRepositoryArgsValid(raw)
    /\ ZString(raw.message, 1)
    /\ ZBoolDefault(raw.allowEmpty)
    /\ ZBoolDefault(raw.signoff)

deleteLocalBranchArgsValid(raw) ==
    /\ localRepositoryArgsValid(raw)
    /\ ZString(raw.branch, 1)
    /\ ZBoolDefault(raw.force)

createLocalBranchHandler(raw) ==
    IF ~createLocalBranchArgsValid(raw) THEN Return(ZodError)
    ELSE createLocalBranch(raw.repoPath, raw.branch, raw.startPoint)

gitStatusHandler(raw) ==
    IF ~localRepositoryArgsValid(raw) THEN Return(ZodError)
    ELSE getStatus(raw.repoPath)

stageChangesHandler(raw) ==
    IF ~stageChangesArgsValid(raw) THEN Return(ZodError)
    ELSE stageChanges(raw.repoPath, raw.paths)

createCommitHandler(raw) ==
    IF ~createCommitArgsValid(raw) THEN Return(ZodError)
    ELSE createCommit(raw.repoPath, raw.message, raw.allowEmpty = "true",
                      raw.signoff = "true")

deleteLocalBranchHandler(raw) ==
    IF ~deleteLocalBranchArgsValid(raw) THEN Return(ZodError)
    ELSE IF Trim(raw.branch) = Main
    THEN Return(toolError("Refusing to delete the local main branch."))
    ELSE deleteLocalBranch(raw.repoPath, raw.branch, raw.force = "true")

\* what a local tool returns once its git command has succeeded
localToolSuccess(t, result) ==
    CASE t = "create-local-branch" -> toolText("Created local branch")
      [] t = "git-status" ->
            IF Truthy(result.stdout)
            THEN [toolText("<stdout>") EXCEPT !.info = [stdout |-> result.stdout]]
            ELSE toolText("Working tree clean.")
      [] t = "stage-changes" -> toolText("Staged")
      [] t = "create-commit" ->
            IF Truthy(result.stdout)
            THEN [toolText("<stdout>") EXCEPT !.info = [stdout |-> result.stdout]]
            ELSE toolText("Created commit.")
      [] t = "delete-local-branch" -> toolText("Deleted local branch")

\* the handler's try/catch around the adapter call
localToolSettle(t, result) ==
    IF result.ok THEN localToolSuccess(t, result)
    ELSE handleGitError(result.error)

---------------------------------------------------------------------------
(* slack-mcp: configuration (src/servers/slack-mcp/src/config.ts) *)

UrlA == <<"u", ":", "a">>

UrlB == <<"u", ":", "b">>

UrlC == <<"u", ":", "c">>

Alerts == <<"a", "l", "e", "r", "t", "s">>

Deploy == <<"d", "e", "p", "l", "o", "y">>

JString(s) == [t |-> "string", s |-> s]

JNumber == [t |-> "number", s |-> <<>>]

\* a value that is itself a JSON object
JNested == [t |-> "object", s |-> <<>>]

JObject(entries) == [json |-> "object", entries |-> entries]

\* SLACK_WEBHOOK_MAP values, by what JSON.parse makes of the text
RawWebhookMaps ==
    {[json |-> "unset"],
     [json |-> "empty"],
     [json |-> "invalid"],
     [json |-> "array"],
     [json |-> "null"],
     [json |-> "scalar"],
     JObject(<<[key |-> Alerts, value |-> JNested]>>),
     JObject(<<>>),
     JObject(<<[key |-> Alerts, value |-> JString(<<" ">> \o UrlB \o <<" ">>)]>>),
     JObject(<<[key |-> Alerts, value |-> JString(UrlB)],
               [key |-> Deploy, value |-> JString(UrlC)]>>),
     JObject(<<[key |-> Alerts, value |-> JString(<<" ">>)]>>),
     JObject(<<[key |-> Alerts, value |-> JNumber]>>)}

\* the environments the slack-mcp process may be started in
SlackEnvs ==
    [SLACK_WEBHOOK_URL : {Absent, <<" ">>, UrlA},
     SLACK_WEBHOOK_MAP : RawWebhookMaps,
     SLACK_USERNAME : {Absent},
     SLACK_ICON_EMOJI : {Absent}]
    \cup
    [SLACK_WEBHOOK_URL : {<<" ">> \o UrlA},
     SLACK_WEBHOOK_MAP : {[json |-> "unset"]},
     SLACK_USERNAME : {Absent, <<>>, <<" ">>, <<"c", " ">>},
     SLACK_ICON_EMOJI : {Absent, <<" ", ":", "c">>}]

\* parseWebhookMap: the name -> URL map, values trimmed, or a failure
parseWebhookMap(raw) ==
    IF raw.json \in {"unset", "empty"} THEN [ok |-> TRUE, value |-> <<>>]
    ELSE IF raw.json = "invalid" \/ raw.json # "object"
    THEN [ok |-> FALSE, error |-> "Failed to parse SLACK_WEBHOOK_MAP"]
    ELSE IF \E i \in 1..Len(raw.entries) :
                \/ raw.entries[i].value.t # "string"
                \/ Trim(raw.entries[i].value.s) = <<>>
    THEN [ok |-> FALSE, error |-> "Failed to parse SLACK_WEBHOOK_MAP"]
    ELSE [ok |-> TRUE,
          value |-> [i \in 1..Len(raw.entries) |->
                        [key |-> raw.entries[i].key,
                         value |-> Trim(raw.entries[i].value.s)]]]

\* process.env.X?.trim() || undefined
TrimOrUndefined(v) == IF v = Absent THEN Absent ELSE OrElse(Trim(v), Absent)

\* variant: an empty configuration is accepted
SlackResolveConfig_NoMissingCheck(e) ==
    LET webhookMap == parseWebhookMap(e.SLACK_WEBHOOK_MAP) IN
    IF ~webhookMap.ok THEN webhookMap
    ELSE [ok |-> TRUE,
          value |-> [defaultWebhookUrl |-> TrimOrUndefined(e.SLACK_WEBHOOK_URL),
                     webhookMap |-> webhookMap.value,
                     username |-> TrimOrUndefined(e.SLACK_USERNAME),
                     iconEmoji |-> TrimOrUndefined(e.SLACK_ICON_EMOJI)]]

\* resolveConfig() of slack-mcp
SlackResolveConfig(e) ==
    LET defaultWebhookUrl == TrimOrUndefined(e.SLACK_WEBHOOK_URL)
        webhookMap == parseWebhookMap(e.SLACK_WEBHOOK_MAP)
    IN IF ~webhookMap.ok THEN webhookMap
       ELSE IF ~Truthy(defaultWebhookUrl) /\ Len(webhookMap.value) = 0
       THEN [ok |-> FALSE, error |-> "Missing Slack webhook configuration."]
       ELSE [ok |-> TRUE,
             value |-> [defaultWebhookUrl |-> defaultWebhookUrl,
                        webhookMap |-> webhookMap.value,
                        username |-> TrimOrUndefined(e.SLACK_USERNAME),
                        iconEmoji |-> TrimOrUndefined(e.SLACK_ICON_EMOJI)]]

---------------------------------------------------------------------------
(* slack-mcp: SlackWebhookClient (src/servers/slack-mcp/src/slackClient.ts) *)

Constructor == <<"c", "o", "n", "s", "t", "r", "u", "c", "t", "o", "r">>

\* property names every plain object inherits from Object.prototype
ObjectPrototypeKeys == {Constructor, <<"t", "o", "S", "t", "r", "i", "n", "g">>}

\* the value of an inherited property: truthy, and not a string
InheritedMember == <<"[native code]">>

HasOwn(map, name) == \E i \in 1..Len(map) : map[i].key = name

\* this.config.webhookMap[name]: an own property, else an inherited one,
\* else undefined
MapLookup(map, name) ==
    IF HasOwn(map, name)
    THEN map[CHOOSE i \in 1..Len(map) : map[i].key = name].value
    ELSE IF name \in ObjectPrototypeKeys THEN InheritedMember
    ELSE Absent


\* variant: the name is looked up before the explicit URL is considered
resolveWebhookUrl_NameFirst(webhookUrl, webhookName) ==
    IF Truthy(webhookName)
    THEN LET mapped == MapLookup(config.webhookMap, webhookName) IN
         IF ~Truthy(mapped)
         THEN [ok |-> FALSE, error |-> "Unknown webhook name"]
         ELSE [ok |-> TRUE, url |-> mapped]
    ELSE IF Truthy(webhookUrl) THEN [ok |-> TRUE, url |-> webhookUrl]
    ELSE IF Truthy(config.defaultWebhookUrl)
    THEN [ok |-> TRUE, url |-> config.defaultWebhookUrl]
    ELSE [ok |-> FALSE, error |-> "No Slack webhook configured."]

\* variant: an unknown name falls back to the default URL
resolveWebhookUrl_Fallback(webhookUrl, webhookName) ==
    IF Truthy(webhookUrl) THEN [ok |-> TRUE, url |-> webhookUrl]
    ELSE IF Truthy(webhookName)
            /\ Truthy(MapLookup(config.webhookMap, webhookName))
    THEN [ok |-> TRUE, url |-> MapLookup(config.webhookMap, webhookName)]
    ELSE IF Truthy(config.defaultWebhookUrl)
    THEN [ok |-> TRUE, url |-> config.defaultWebhookUrl]
    ELSE [ok |-> FALSE, error |-> "No Slack webhook configured."]

\* resolveWebhookUrl(options)
resolveWebhookUrl(webhookUrl, webhookName) ==
    IF Truthy(webhookUrl) THEN [ok |-> TRUE, url |-> webhookUrl]
    ELSE IF Truthy(webhookName)
    THEN LET mapped == MapLookup(config.webhookMap, webhookName) IN
         IF ~Truthy(mapped)
         THEN [ok |-> FALSE, error |-> "Unknown webhook name"]
         ELSE [ok |-> TRUE, url |-> mapped]
    ELSE IF Truthy(config.defaultWebhookUrl)
    THEN [ok |-> TRUE, url |-> config.defaultWebhookUrl]
    ELSE [ok |-> FALSE, error |-> "No Slack webhook configured."]

Letters ==
    {"a", "b", "c", "d", "e", "f", "g", "h", "i", "j", "k", "l", "m", "n",
     "o", "p", "q", "r", "s", "t", "u", "v", "w", "x", "y", "z"}

\* whether new URL(s) accepts s: an absolute URL starts with a scheme
ParsesAsUrl(s) ==
    /\ s # InheritedMember
    /\ IsString(s)
    /\ \E i \in 2..Len(s) :
          /\ s[i] = ":"
          /\ \A j \in 1..(i - 1) : s[j] \in Letters

\* an array value (blocks, attachments) as the text it is serialized to;
\* Array(n): an array of n items whose content plays no part; NoArray:
\* undefined
NoArray == <<"no array">>

Array(n) == <<"[", Digit(n), "]">>

\* PostMessageOptions
Options(text, blocks, attachments, webhookName, webhookUrl, username, iconEmoji) ==
    [text |-> text, blocks |-> blocks, attachments |-> attachments,
     webhookName |-> webhookName, webhookUrl |-> webhookUrl,
     username |-> username, iconEmoji |-> iconEmoji]

\* value?.trim()
OptTrim(v) == IF v = Absent THEN Absent ELSE Trim(v)

\* payload.key = value, when the condition holds
Entry(cond, key, value) ==
    IF cond THEN <<[key |-> key, value |-> value]>> ELSE <<>>

\* variant: every key is written, present or not
buildPayload_AllKeys(options) ==
    <<[key |-> "text", value |-> options.text],
      [key |-> "blocks", value |-> options.blocks],
      [key |-> "attachments", value |-> options.attachments],
      [key |-> "username", value |-> options.username],
      [key |-> "icon_emoji", value |-> options.iconEmoji]>>

\* SlackWebhookClient.buildPayload: the properties of the payload object
\* in the order they are assigned (an array is truthy even when empty)
buildPayload(options) ==
    LET username == OrElse(OptTrim(options.username), config.username)
        iconEmoji == OrElse(OptTrim(options.iconEmoji), config.iconEmoji)
    IN  Entry(Truthy(options.text), "text", options.text)
          \o Entry(options.blocks # NoArray, "blocks", options.blocks)
          \o Entry(options.attachments # NoArray, "attachments",
                   options.attachments)
          \o Entry(Truthy(username), "username", username)
          \o Entry(Truthy(iconEmoji), "icon_emoji", iconEmoji)

\* SlackWebhookClient.postMessage up to its await: resolve the URL, build
\* the payload, then fetch(url, { method: "POST", body }); fetch called
\* with something that is no URL rejects without sending anything
postMessage(options) ==
    LET target == resolveWebhookUrl(options.webhookUrl, options.webhookName) IN
    IF ~target.ok THEN Return(Thrown("Error", target.error, NoInfo))
    ELSE IF ~ParsesAsUrl(target.url)
    THEN Return(Thrown("TypeError", "Failed to parse URL", NoInfo))
    ELSE AwaitFetch(<<[method |-> "POST", url |-> target.url,
                       payload |-> buildPayload(options)]>>,
                    [options |-> options])

---------------------------------------------------------------------------
(* slack-mcp tool handlers (src/unnamed/part_003, server.ts) *)

\* z.string().url().optional()
ZOptUrl(v) == v = Absent \/ ParsesAsUrl(v)

\* z.string().min(1).optional()
ZOptStringMin1(v) == v = Absent \/ ZString(v, 1)

postMessageArgsValid(raw) ==
    /\ ZString(raw.headline, 1)
    /\ ZOptString(raw.body)
    /\ ZOptString(raw.webhookName)
    /\ ZOptUrl(raw.webhookUrl)
    /\ ZOptStringMin1(raw.username)
    /\ ZOptStringMin1(raw.iconEmoji)

postPullRequestArgsValid(raw) ==
    /\ ZString(raw.repository, 1)
    /\ ZPositiveInt(raw.number)
    /\ ZString(raw.title, 1)
    /\ ParsesAsUrl(raw.url)
    /\ ZString(raw.author, 1)
    /\ ZOptString(raw.body)
    /\ ZOptString(raw.webhookName)
    /\ ZOptUrl(raw.webhookUrl)
    /\ ZOptStringMin1(raw.username)
    /\ ZOptStringMin1(raw.iconEmoji)

\* parts.join(sep) for a separator of several characters
RECURSIVE JoinWith(_, _)
JoinWith(parts, sep) ==
    IF parts = <<>> THEN <<>>
    ELSE IF Len(parts) = 1 THEN parts[1]
    ELSE parts[1] \o sep \o JoinWith(Tail(parts), sep)

\* parts.push(part), when the condition holds
Part(cond, part) == IF cond THEN <<part>> ELSE <<>>

\* buildFallbackText: [icon], [username], headline, body joined by " - "
\* (an em dash in the source); highlights, fields, cta and footer are
\* left at their defaults
buildFallbackText(args, username, iconEmoji) ==
    JoinWith(Part(Truthy(iconEmoji), <<"[">> \o iconEmoji \o <<"]">>)
               \o Part(Truthy(username), <<"[">> \o username \o <<"]">>)
               \o <<args.headline>>
               \o Part(Truthy(args.body), args.body),
             <<" ", "-", " ">>)

\* buildRichBlocks: the header block, a section for the body, and a
\* context block whose elements are the icon and the username in bold,
\* when there is either (highlights, fields, cta and footer are left at
\* their defaults)
buildRichBlocks(args, username, iconEmoji) ==
    LET contextElements ==
            Part(Truthy(iconEmoji), iconEmoji)
              \o Part(Truthy(username), <<"*">> \o username \o <<"*">>)
    IN  <<"[">>
          \o JoinWith(<< <<"h", ":">> \o args.headline >>
                        \o Part(Truthy(args.body), <<"s", ":">> \o args.body)
                        \o Part(contextElements # <<>>,
                                <<"c", ":">> \o JoinWith(contextElements, <<"+">>)),
                      <<",">>)
          \o <<"]">>

\* pullRequestText: headline, state, author, description, link, joined by
\* newlines (state "open", not a draft, no reviewers, labels or counts)
pullRequestText(args) ==
    JoinWith(<<<<"o", "k", " ">> \o args.repository \o <<"#">>
                  \o NumToStr(args.number.n) \o <<" ", "-", " ">> \o args.title,
               <<"S", "t", "a", "t", "e", ":", " ", "O", "p", "e", "n">>,
               <<"A", "u", "t", "h", "o", "r", ":", " ">> \o args.author>>
               \o Part(Truthy(args.body), <<"D", "e", "s", "c", "r", "i", "p", "t", "i", "o", "n", ":", " ">> \o args.body)
               \o <<<<"L", "i", "n", "k", ":", " ">> \o args.url>>,
             <<"\n">>)

\* pullRequestBlocks: title section, context, fields section, and a
\* description section when there is a body
pullRequestBlocks(args) == Array(3 + (IF Truthy(args.body) THEN 1 ELSE 0))

\* post-message of part_003
postMessageHandler(raw) ==
    IF ~postMessageArgsValid(raw) THEN Return(ZodError)
    ELSE LET effectiveUsername == Coalesce(raw.username, config.username)
             effectiveIcon == Coalesce(raw.iconEmoji, config.iconEmoji)
         IN  postMessage(Options(
                 buildFallbackText(raw, effectiveUsername, effectiveIcon),
                 buildRichBlocks(raw, effectiveUsername, effectiveIcon),
                 raw.attachments, raw.webhookName, raw.webhookUrl,
                 raw.username, raw.iconEmoji))

\* post-pr of part_003
postPrHandler(raw) ==
    IF ~postPullRequestArgsValid(raw) THEN Return(ZodError)
    ELSE postMessage(Options(pullRequestText(raw), pullRequestBlocks(raw),
                             NoArray, raw.webhookName, raw.webhookUrl,
                             raw.username, raw.iconEmoji))

\* postMessageArgs of src/servers/slack-mcp/src/server.ts: text, blocks,
\* attachments, webhookName, webhookUrl; other keys are stripped
postMessageBasicArgsValid(raw) ==
    /\ raw.text = Absent \/ ZString(raw.text, 1)
    /\ ZOptString(raw.webhookName)
    /\ ZOptUrl(raw.webhookUrl)

\* postPullRequestArgs of src/servers/slack-mcp/src/server.ts
postPullRequestBasicArgsValid(raw) ==
    /\ ZString(raw.repository, 1)
    /\ ZPositiveInt(raw.number)
    /\ ZString(raw.title, 1)
    /\ ParsesAsUrl(raw.url)
    /\ ZString(raw.author, 1)
    /\ ZOptString(raw.body)
    /\ ZOptString(raw.webhookName)
    /\ ZOptUrl(raw.webhookUrl)

\* post-message of src/servers/slack-mcp/src/server.ts
postMessageBasicHandler(raw) ==
    IF ~postMessageBasicArgsValid(raw) THEN Return(ZodError)
    ELSE IF ~Truthy(raw.text) /\ raw.blocks = NoArray
            /\ raw.attachments = NoArray
    THEN Return(toolError(
            "Provide at least one of text, blocks, or attachments for Slack message."))
    ELSE postMessage(Options(raw.text, raw.blocks, raw.attachments,
                             raw.webhookName, raw.webhookUrl, Absent, Absent))

\* post-pr of src/servers/slack-mcp/src/server.ts
postPrBasicHandler(raw) ==
    IF ~postPullRequestBasicArgsValid(raw) THEN Return(ZodError)
    ELSE postMessage(Options(pullRequestText(raw), pullRequestBlocks(raw),
                             NoArray, raw.webhookName, raw.webhookUrl,
                             Absent, Absent))

---------------------------------------------------------------------------
(* Backend behaviour *)

\* HTTP responses of the GitHub API, by what the client looks at: status,
\* whether the body parses as JSON, and the payload's items / merged flag
NoResponse == [none |-> TRUE]

\* a response: status, whether the body parses as JSON, the fields of the
\* parsed body the handlers read, and the two rate-limit headers as
\* headers.get() returns them (Absent stands for null)
Response(status, json, items, merged, message, remaining, reset) ==
    [status |-> status, json |-> json, items |-> items, merged |-> merged,
     message |-> message, remaining |-> remaining, reset |-> reset]

Str_1700000000 == <<"1", "7", "0", "0", "0", "0", "0", "0", "0", "0">>

Str_86400 == <<"8", "6", "4", "0", "0">>

Responses ==
    {Response(200, TRUE, 0, FALSE, Absent, Absent, Absent),
     Response(200, TRUE, 1, TRUE, Absent, <<"0">>, Str_86400),
     Response(200, FALSE, 0, FALSE, Absent, Absent, Absent),
     Response(204, FALSE, 0, FALSE, Absent, Absent, Absent),
     Response(403, TRUE, 0, FALSE, <<"m">>, <<"0">>, Str_1700000000),
     Response(403, TRUE, 0, FALSE, Absent, <<"0">>, Absent),
     Response(403, TRUE, 0, FALSE, <<"m">>, <<"1">>, Str_1700000000),
     Response(403, FALSE, 0, FALSE, Absent, <<"0">>, <<"s", "o", "o", "n">>),
     Response(429, FALSE, 0, FALSE, Absent, <<"0">>, <<>>),
     Response(404, FALSE, 0, FALSE, Absent, Absent, Absent),
     Response(404, TRUE, 0, FALSE, <<"m">>, <<"0">>, Str_86400)}

\* response.ok
Ok(resp) == resp.status >= 200 /\ resp.status <= 299

NaN == [nan |-> TRUE]

IsDigit(c) == c \in {"0", "1", "2", "3", "4", "5", "6", "7", "8", "9"}

DigitValue(c) ==
    CASE c = "0" -> 0 [] c = "1" -> 1 [] c = "2" -> 2 [] c = "3" -> 3
      [] c = "4" -> 4 [] c = "5" -> 5 [] c = "6" -> 6 [] c = "7" -> 7
      [] c = "8" -> 8 [] c = "9" -> 9

\* the value of the longest run of decimal digits at the start of s
RECURSIVE LeadingDigits(_, _)
LeadingDigits(s, acc) ==
    IF s = <<>> \/ ~IsDigit(Head(s)) THEN acc
    ELSE LeadingDigits(Tail(s), acc * 10 + DigitValue(Head(s)))

\* Number.parseInt(s, 10): leading whitespace is skipped, then an optional
\* sign, then decimal digits; NaN when no digit follows
parseInt(s) ==
    LET t == TrimStart(s)
        neg == t # <<>> /\ Head(t) = "-"
        u == IF t # <<>> /\ Head(t) \in {"-", "+"} THEN Tail(t) ELSE t
    IN  IF u = <<>> \/ ~IsDigit(Head(u)) THEN NaN
        ELSE IF neg THEN Num(0 - LeadingDigits(u, 0)) ELSE Num(LeadingDigits(u, 0))

\* n written with at least w decimal digits
Pad(n, w) ==
    LET d == NumToStr(n) IN
    [i \in 1..(IF Len(d) < w THEN w - Len(d) ELSE 0) |-> "0"] \o d

\* new Date(seconds * 1000).toISOString(), for a date in years 0..9999:
\* the proleptic Gregorian date and time of day of the instant, UTC
toISOString(seconds) ==
    LET days == seconds \div 86400
        secs == seconds % 86400
        z == days + 719468
        era == z \div 146097
        doe == z - era * 146097
        yoe == (doe - doe \div 1460 + doe \div 36524 - doe \div 146096) \div 365
        doy == doe - (365 * yoe + yoe \div 4 - yoe \div 100)
        mp == (5 * doy + 2) \div 153
        d == doy - (153 * mp + 2) \div 5 + 1
        m == IF mp < 10 THEN mp + 3 ELSE mp - 9
        y == yoe + era * 400 + (IF m <= 2 THEN 1 ELSE 0)
    IN  Pad(y, 4) \o <<"-">> \o Pad(m, 2) \o <<"-">> \o Pad(d, 2) \o <<"T">>
          \o Pad(secs \div 3600, 2) \o <<":">> \o Pad((secs % 3600) \div 60, 2)
          \o <<":">> \o Pad(secs % 60, 2) \o <<".", "0", "0", "0", "Z">>

RangeError == Thrown("RangeError", "Invalid time value", NoInfo)

\* GitHubClient.handleError: always throws. The message is the text
\* "GitHub API request failed with <status>", then ": <message>" when the
\* JSON body has a message, then ". Rate limit resets at <reset>." when
\* x-ratelimit-remaining is "0" and x-ratelimit-reset is truthy; info
\* holds what fills the three places (Absent: the part is not there).
\* toISOString() of an invalid Date throws a RangeError instead.
handleError(resp) ==
    LET message == IF resp.json /\ Truthy(resp.message) THEN resp.message
                   ELSE Absent
        limited == resp.remaining = <<"0">> /\ Truthy(resp.reset)
        seconds == parseInt(resp.reset)
    IN  IF limited /\ seconds = NaN THEN RangeError
        ELSE Thrown("Error", "GitHub API request failed with <status>",
                    [status |-> resp.status, message |-> message,
                     reset |-> IF limited THEN toISOString(seconds.n)
                               ELSE Absent])

\* GitHubClient.request after the fetch resolved: throws on a non-success
\* status, yields undefined on 204, else the parsed JSON body
requestResult(resp) ==
    IF ~Ok(resp) THEN [kind |-> "throw", error |-> handleError(resp)]
    ELSE IF resp.status = 204 THEN [kind |-> "undefined"]
    ELSE IF ~resp.json
    THEN [kind |-> "throw",
          error |-> Thrown("SyntaxError", "Unexpected end of JSON input", NoInfo)]
    ELSE [kind |-> "value", items |-> resp.items, merged |-> resp.merged]

\* reading a property of undefined
TypeErrorUndefined ==
    Thrown("TypeError", "Cannot read properties of undefined", NoInfo)

\* the rest of a gh-mcp HTTP tool handler, after `await client.X(...)`:
\* there is no try/catch, so a rejected client call rejects the handler
ghAfterResponse(t, resp) ==
    LET r == requestResult(resp) IN
    IF r.kind = "throw" THEN r.error
    ELSE CASE t = "delete-remote-branch" -> toolText("Deleted remote branch")
           [] t = "merge-pull-request" ->
                IF r.kind = "undefined" \/ ~r.merged
                THEN toolError("Merge unsuccessful")
                ELSE toolText("Merged pull request")
           [] t = "list-repositories" ->
                IF r.kind = "undefined" THEN TypeErrorUndefined
                ELSE IF r.items = 0
                THEN toolText("No repositories found for the provided criteria.")
                ELSE toolText("<repositories>")
           [] t = "search-issues" ->
                IF r.kind = "undefined" THEN TypeErrorUndefined
                ELSE IF r.items = 0 THEN toolText("No issues matched the query.")
                ELSE toolText("<issues>")
           [] OTHER ->
                IF r.kind = "undefined" THEN TypeErrorUndefined
                ELSE toolText("<formatted>")

\* responses of the Slack webhook endpoint
SlackStatuses == {200, 404, 500}

\* SlackWebhookClient.postMessage after the fetch resolved, and the rest
\* of the handler (no try/catch)
slackAfterResponse(t, status) ==
    IF ~(status >= 200 /\ status <= 299)
    THEN Thrown("Error", "Slack webhook returned <status>", [status |-> status])
    ELSE IF t = "post-pr" THEN toolText("Pull request posted")
    ELSE toolText("Message posted to Slack.")

\* first access() of ensureRepoPath
ensureRepoPathExists(resolved) ==
    IF resolved \in ExistingPaths THEN [ok |-> TRUE]
    ELSE [ok |-> FALSE,
          error |-> GitLocalError("Repository path does not exist: <resolved>",
                                  [resolved |-> resolved], <<"E">>)]


\* variant: the .git entry is not checked
ensureRepoPathGit_NoCheck(resolved) == [ok |-> TRUE]

\* second access() of ensureRepoPath, on join(resolved, ".git")
ensureRepoPathGit(resolved) ==
    IF resolved \in GitRepos THEN [ok |-> TRUE]
    ELSE [ok |-> FALSE,
          error |-> GitLocalError(
                "Path is not a git repository (missing .git directory): <resolved>",
                [resolved |-> resolved], <<"E">>)]

\* exit codes the child may close with; "null" when killed by a signal
ExitCodes == {"0", "1", "null"}

\* chunks the child may write to a stream
Chunks == {<<"x">>, <<" ">>}

\* bound on the characters captured from one child
MaxOutput == 2

---------------------------------------------------------------------------
(* Argument payloads the tools are invoked with *)

OwnerArgs == {Absent, <<>>, <<"o">>}

RepoArgs == {Absent, <<"r">>, <<".", ".">>}

BranchArgs ==
    {Absent, <<>>, Main, <<" ">> \o Main \o <<" ">>,
     RefsHeadsPrefix \o Main,
     RefsHeadsPrefix \o RefsHeadsPrefix \o Main,
     <<"f", "/", "x">>, RefsHeadsPrefix \o <<"f", "/", "x">>, <<"r", "e", "f", "s", "/", "t", "a", "g", "s", "/", "v">>}

ShaArgs == {Absent, <<"c">>}

BoolArgs == {"absent", "true", "bad"}

PerPageArgs == {NoNum, Num(0), Num(50)}

NumberArgs == {NoNum, Num(0), Num(7)}

RepoPathArgs == {Absent, <<>>, <<"r">>, <<"/", "n">>, <<"/", "m">>, <<"/", "w", "/", "r">>}

LocalBranchArgs ==
    {Absent, Main, <<" ">> \o Main \o <<" ">>, <<" ">>, <<"f", "/", "x">>}

PathsArgs ==
    {[given |-> FALSE, items |-> <<>>],
     [given |-> TRUE, items |-> <<>>],
     [given |-> TRUE, items |-> << <<"a">> >>],
     [given |-> TRUE, items |-> << <<>> >>]}

WebhookNameArgs == {Absent, <<>>, Alerts, <<"n", "o", "p", "e">>, Constructor}

WebhookUrlArgs == {Absent, <<>>, <<"u", ":", "z">>}

listRepositoriesInputs ==
    [owner : OwnerArgs, ownerType : {"absent", "user", "org", "bogus"},
     perPage : PerPageArgs, includePrivate : BoolArgs]

createBranchInputs ==
    [owner : OwnerArgs, repo : RepoArgs, branch : BranchArgs, sha : ShaArgs]

updateBranchInputs ==
    [owner : OwnerArgs, repo : RepoArgs, branch : BranchArgs, sha : ShaArgs,
     force : {"absent", "true"}]

getCommitStatusInputs ==
    [owner : OwnerArgs, repo : RepoArgs, ref : {Absent, <<>>, Main}]

deleteRemoteBranchInputs ==
    [owner : OwnerArgs, repo : RepoArgs, branch : BranchArgs]

createPullRequestInputs ==
    [owner : OwnerArgs, repo : RepoArgs, title : {Absent, <<"t">>},
     head : {<<>>, <<"h">>}, base : {Absent, Main}]

approvePullRequestInputs ==
    [owner : OwnerArgs, repo : RepoArgs, pullNumber : NumberArgs]

mergePullRequestInputs ==
    [owner : OwnerArgs, repo : RepoArgs, pullNumber : NumberArgs,
     mergeMethod : {"absent", "squash", "bogus"}]

getIssueInputs ==
    [owner : OwnerArgs, repo : RepoArgs, issueNumber : NumberArgs]

searchIssuesInputs == [query : {Absent, <<>>, <<"q">>}, perPage : PerPageArgs]

createLocalBranchInputs ==
    [repoPath : RepoPathArgs, branch : {Absent, <<"f", "/", "x">>},
     startPoint : {Absent, <<>>, Main}]

gitStatusInputs == [repoPath : RepoPathArgs]

stageChangesInputs == [repoPath : RepoPathArgs, paths : PathsArgs]

createCommitInputs ==
    [repoPath : RepoPathArgs, message : {Absent, <<"m">>},
     allowEmpty : {"absent", "true"}, signoff : {"absent", "true"}]

deleteLocalBranchInputs ==
    [repoPath : RepoPathArgs, branch : LocalBranchArgs, force : BoolArgs]

\* per-call sender overrides: absent, empty, blank, padded, plain
UsernameArgs == {Absent, <<>>, <<" ">>, <<" ", "b">>}

IconEmojiArgs == {Absent, <<":", "i">>}

postMessageInputs ==
    [headline : {Absent, <<"h">>}, body : {Absent},
     attachments : {NoArray, Array(1)}, webhookName : WebhookNameArgs,
     webhookUrl : WebhookUrlArgs, username : UsernameArgs,
     iconEmoji : IconEmojiArgs]

postPrInputs ==
    [repository : {<<>>, <<"o", "/", "r">>}, number : {Num(7)}, title : {<<"t">>},
     url : {<<"u", ":", "p">>}, author : {<<"a">>}, body : {Absent, <<"d">>},
     webhookName : WebhookNameArgs, webhookUrl : {Absent, <<"u", ":", "z">>},
     username : UsernameArgs, iconEmoji : IconEmojiArgs]

postMessageBasicInputs ==
    [text : {Absent, <<>>, <<"t">>}, blocks : {NoArray, Array(0), Array(1)},
     attachments : {NoArray, Array(1)}, webhookName : {Absent, Alerts},
     webhookUrl : {Absent, <<"u", ":", "z">>}, username : {Absent, <<"b">>},
     iconEmoji : IconEmojiArgs]

NoArgs == [none |-> TRUE]

---------------------------------------------------------------------------
(* Invocations in flight at the same time *)

\* bound on the invocations in flight at once
MaxInFlight == 2

Slots == 1..MaxInFlight

\* what one invocation owns: the handler's locals, the requests and child
\* process it started, the stdout/stderr strings of its runGitCommand
\* closure, and (for the properties) the backend events delivered to it
IdleInvocation ==
    [pc |-> "idle", tool |-> "none", rawArgs |-> NoArgs, call |-> NoInfo,
     requests |-> <<>>, spawns |-> <<>>, child |-> "none", stdout |-> <<>>,
     stderr |-> <<>>, outcome |-> NoOutcome, events |-> <<>>]

Event(type, data) == [type |-> type, data |-> data]

Logged(inv, ev) == [inv EXCEPT !.events = Append(@, ev)]

\* the handler the server registered under the tool name
HandlerStep(t, raw) ==
    CASE t = "git-status" -> gitStatusHandler(raw)
      [] t = "stage-changes" -> stageChangesHandler(raw)
      [] t = "rate-limit" -> rateLimitHandler
      [] t = "post-pr" -> IF build = "part_003" THEN postPrHandler(raw)
                          ELSE postPrBasicHandler(raw)

\* the transport calls a handler: it runs to its first await
invoke(s, i, t, raw) ==
    LET step == HandlerStep(t, raw) IN
    [s EXCEPT ![i] =
        [pc |-> step.next, tool |-> t, rawArgs |-> raw, call |-> step.keep,
         requests |-> step.fetches, spawns |-> <<>>, child |-> "none",
         stdout |-> <<>>, stderr |-> <<>>, outcome |-> step.outcome,
         events |-> <<>>]]

\* ensureRepoPath: the first access() of invocation i settles
accessSettled(s, i) ==
    LET r == ensureRepoPathExists(s[i].call.resolved) IN
    [s EXCEPT ![i] =
        Logged(IF r.ok THEN [s[i] EXCEPT !.pc = "accessGit"]
               ELSE [s[i] EXCEPT !.pc = "done",
                                 !.outcome = handleGitError(r.error)],
               Event("access", <<>>))]

\* ensureRepoPath: the second access() of invocation i settles; on success
\* its runGitCommand spawns git
accessGitSettled(s, i) ==
    LET r == ensureRepoPathGit(s[i].call.resolved) IN
    [s EXCEPT ![i] =
        Logged(IF r.ok
               THEN [s[i] EXCEPT !.pc = "git",
                                 !.spawns = @ \o spawn(s[i].call.argv,
                                                       s[i].call.resolved),
                                 !.child = "running"]
               ELSE [s[i] EXCEPT !.pc = "done",
                                 !.outcome = handleGitError(r.error)],
               Event("accessGit", <<>>))]

\* variant: the stdout string is one module-level buffer that every running
\* capture appends to
stdoutData_SharedBuffer(s, i, data) ==
    [j \in DOMAIN s |->
        IF j = i
        THEN Logged([s[j] EXCEPT !.stdout = @ \o data], Event("stdout", data))
        ELSE IF s[j].child = "running"
        THEN [s[j] EXCEPT !.stdout = @ \o data]
        ELSE s[j]]

\* child.stdout "data" of invocation i: `stdout += data.toString()` on the
\* stdout declared inside that call's Promise executor
stdoutData(s, i, data) ==
    [s EXCEPT ![i] =
        Logged([s[i] EXCEPT !.stdout = @ \o data], Event("stdout", data))]

\* variant: the stderr handler appends to the stdout string
stderrData_IntoStdout(s, i, data) ==
    [s EXCEPT ![i] =
        Logged([s[i] EXCEPT !.stdout = @ \o data], Event("stderr", data))]

\* child.stderr "data" of invocation i
stderrData(s, i, data) ==
    [s EXCEPT ![i] =
        Logged([s[i] EXCEPT !.stderr = @ \o data], Event("stderr", data))]

\* child "error" of invocation i
childErrored(s, i) ==
    [s EXCEPT ![i] =
        Logged(IF s[i].pc = "git"
               THEN [s[i] EXCEPT !.child = "failed", !.pc = "done",
                        !.outcome = localToolSettle(s[i].tool,
                                        errorResult(s[i].call.argv))]
               ELSE [s[i] EXCEPT !.child = "failed"],
               Event("error", <<>>))]

\* child "close" of invocation i
childClosed(s, i, code) ==
    [s EXCEPT ![i] =
        Logged(IF s[i].pc = "git"
               THEN [s[i] EXCEPT !.child = "closed", !.pc = "done",
                        !.outcome = localToolSettle(s[i].tool,
                                        closeResult(code, s[i].call.argv,
                                                    s[i].stdout, s[i].stderr))]
               ELSE [s[i] EXCEPT !.child = "closed"],
               Event("close", code))]

\* the fetch() of invocation i resolves: with a Response for gh-mcp, with a
\* status for the webhook client
fetchResolved(s, i, resp) ==
    [s EXCEPT ![i] =
        Logged([s[i] EXCEPT !.pc = "done",
                   !.outcome = IF server = "gh-mcp"
                               THEN ghAfterResponse(s[i].tool, resp)
                               ELSE slackAfterResponse(s[i].tool, resp)],
               Event("response", resp))]

\* the fetch() of invocation i rejects
fetchRejected(s, i) ==
    [s EXCEPT ![i] =
        Logged([s[i] EXCEPT !.pc = "done",
                   !.outcome = Thrown("TypeError", "fetch failed", NoInfo)],
               Event("rejected", <<>>))]

\* the outcome of invocation i goes back to the transport
delivered(s, i) == [s EXCEPT ![i] = IdleInvocation]

\* what a backend event does to invocation i
OnEvent(s, i, ev) ==
    CASE ev.type = "access" -> accessSettled(s, i)
      [] ev.type = "accessGit" -> accessGitSettled(s, i)
      [] ev.type = "stdout" -> stdoutData(s, i, ev.data)
      [] ev.type = "stderr" -> stderrData(s, i, ev.data)
      [] ev.type = "error" -> childErrored(s, i)
      [] ev.type = "close" -> childClosed(s, i, ev.data)
      [] ev.type = "response" -> fetchResolved(s, i, ev.data)
      [] ev.type = "rejected" -> fetchRejected(s, i)

\* inputs and backend answers of the invocations run side by side
ConcGhEnvs ==
    {e \in GhEnvs : /\ e.GITHUB_TOKEN = <<"t">>
                    /\ e.GITHUB_DEFAULT_OWNER = Absent
                    /\ e.GITHUB_USER_AGENT = Absent}

ConcSlackEnvs ==
    {e \in SlackEnvs : /\ e.SLACK_WEBHOOK_URL = UrlA
                       /\ e.SLACK_WEBHOOK_MAP.json = "unset"}

ConcStageChangesInputs ==
    {[repoPath |-> <<"r">>, paths |-> [given |-> TRUE, items |-> << <<"a">> >>]],
     [repoPath |-> <<"/", "n">>, paths |-> [given |-> FALSE, items |-> <<>>]]}

ConcGitStatusInputs == [repoPath : {<<"r">>}]

ConcPostPrInputs ==
    {raw \in postPrInputs :
        /\ raw.body = Absent /\ raw.webhookUrl = Absent
        /\ raw.webhookName = Absent /\ raw.iconEmoji = Absent
        /\ raw.username \in {Absent, <<" ", "b">>}}

ConcResponses ==
    {r \in Responses : r.status \in {200, 404} /\ r.json /\ r.items = 0}

\* the next chunk of a child: a child writes a blank and a character in
\* turn, each on either stream
ConcChunks(inv) ==
    {IF (Len(inv.stdout) + Len(inv.stderr)) % 2 = 0 THEN <<" ">> ELSE <<"x">>}

ConcExitCodes == {"0", "1"}

ConcStatuses == {200, 500}

---------------------------------------------------------------------------
(* The state machine *)

Signals == {"SIGINT", "SIGTERM"}

\* main() of slack-mcp once the server is connected: a one-shot listener
\* per signal, no shutdown run started, nothing closed, nothing logged;
\* gh-mcp registers no listener
Listening ==
    [listeners |-> IF server = "slack-mcp" /\ exitCode = "none"
                   THEN Signals ELSE {},
     runs |-> [sig \in Signals |-> "none"],
     calls |-> <<>>,
     log |-> <<>>]

InitInvocation ==
    /\ tool = "none"
    /\ rawArgs = NoArgs
    /\ call = NoInfo
    /\ requests = <<>>
    /\ spawns = <<>>
    /\ child = "none"
    /\ stdout = <<>>
    /\ stderr = <<>>
    /\ exit = "none"
    /\ response = NoResponse
    /\ outcome = NoOutcome

\* variant: a failed start exits with code 0
Startup_ExitZero(name, src, e, resolved) ==
    /\ server = name
    /\ build = src
    /\ env = e
    /\ IF resolved.ok
       THEN config = resolved.value /\ pc = "idle" /\ exitCode = "none"
       ELSE config = NoConfig /\ pc = "exited" /\ exitCode = "0"

\* main(): resolveConfig() either yields the configuration the server (and
\* for gh-mcp the GitHubClient) is created with, or it throws, main()
\* rejects, and the catch handler calls process.exit(1)
Startup(name, src, e, resolved) ==
    /\ server = name
    /\ build = src
    /\ env = e
    /\ IF resolved.ok /\ (name = "gh-mcp" => GitHubClient(resolved.value.token))
       THEN config = resolved.value /\ pc = "idle" /\ exitCode = "none"
       ELSE config = NoConfig /\ pc = "exited" /\ exitCode = "1"

Init ==
    /\ \/ \E e \in GhEnvs :
             Startup("gh-mcp", "part_008", e, GhResolveConfig(e))
       \/ \E e \in SlackEnvs, src \in {"part_003", "server.ts"} :
             Startup("slack-mcp", src, e, SlackResolveConfig(e))
    /\ InitInvocation
    /\ inflight = [i \in Slots |-> IdleInvocation]
    /\ lifecycle = Listening

Idle(name) == server = name /\ pc = "idle"

\* a handler is called with raw arguments and runs to its first await
Begin(t, raw, step) ==
    /\ tool' = t
    /\ rawArgs' = raw
    /\ pc' = step.next
    /\ outcome' = step.outcome
    /\ requests' = step.fetches
    /\ call' = step.keep
    /\ spawns' = <<>>
    /\ child' = "none"
    /\ stdout' = <<>>
    /\ stderr' = <<>>
    /\ exit' = "none"
    /\ response' = NoResponse
    /\ UNCHANGED <<inflight, lifecycle, server, build, env, exitCode, config>>

ListRepositories ==
    /\ Idle("gh-mcp")
    /\ \E raw \in listRepositoriesInputs :
          Begin("list-repositories", raw, listRepositoriesHandler(raw))

CreateBranch ==
    /\ Idle("gh-mcp")
    /\ \E raw \in createBranchInputs :
          Begin("create-branch", raw, createBranchHandler(raw))

UpdateBranch ==
    /\ Idle("gh-mcp")
    /\ \E raw \in updateBranchInputs :
          Begin("update-branch", raw, updateBranchHandler(raw))

GetCommitStatus ==
    /\ Idle("gh-mcp")
    /\ \E raw \in getCommitStatusInputs :
          Begin("get-commit-status", raw, getCommitStatusHandler(raw))

DeleteRemoteBranch ==
    /\ Idle("gh-mcp")
    /\ \E raw \in deleteRemoteBranchInputs :
          Begin("delete-remote-branch", raw, deleteRemoteBranchHandler(raw))

CreatePullRequest ==
    /\ Idle("gh-mcp")
    /\ \E raw \in createPullRequestInputs :
          Begin("create-pull-request", raw, createPullRequestHandler(raw))

ApprovePullRequest ==
    /\ Idle("gh-mcp")
    /\ \E raw \in approvePullRequestInputs :
          Begin("approve-pull-request", raw, approvePullRequestHandler(raw))

MergePullRequest ==
    /\ Idle("gh-mcp")
    /\ \E raw \in mergePullRequestInputs :
          Begin("merge-pull-request", raw, mergePullRequestHandler(raw))

GetIssue ==
    /\ Idle("gh-mcp")
    /\ \E raw \in getIssueInputs :
          Begin("get-issue", raw, getIssueHandler(raw))

SearchIssues ==
    /\ Idle("gh-mcp")
    /\ \E raw \in searchIssuesInputs :
          Begin("search-issues", raw, searchIssuesHandler(raw))

ReadRateLimit ==
    /\ Idle("gh-mcp")
    /\ Begin("rate-limit", NoArgs, rateLimitHandler)

CreateLocalBranch ==
    /\ Idle("gh-mcp")
    /\ \E raw \in createLocalBranchInputs :
          Begin("create-local-branch", raw, createLocalBranchHandler(raw))

GitStatus ==
    /\ Idle("gh-mcp")
    /\ \E raw \in gitStatusInputs :
          Begin("git-status", raw, gitStatusHandler(raw))

StageChanges ==
    /\ Idle("gh-mcp")
    /\ \E raw \in stageChangesInputs :
          Begin("stage-changes", raw, stageChangesHandler(raw))

CreateCommit ==
    /\ Idle("gh-mcp")
    /\ \E raw \in createCommitInputs :
          Begin("create-commit", raw, createCommitHandler(raw))

DeleteLocalBranch ==
    /\ Idle("gh-mcp")
    /\ \E raw \in deleteLocalBranchInputs :
          Begin("delete-local-branch", raw, deleteLocalBranchHandler(raw))

PostMessage ==
    /\ Idle("slack-mcp") /\ build = "part_003"
    /\ \E raw \in postMessageInputs :
          Begin("post-message", raw, postMessageHandler(raw))

PostPr ==
    /\ Idle("slack-mcp") /\ build = "part_003"
    /\ \E raw \in postPrInputs :
          Begin("post-pr", raw, postPrHandler(raw))

\* the two tools as src/servers/slack-mcp/src/server.ts registers them
PostMessageBasic ==
    /\ Idle("slack-mcp") /\ build = "server.ts"
    /\ \E raw \in postMessageBasicInputs :
          Begin("post-message", raw, postMessageBasicHandler(raw))

PostPrBasic ==
    /\ Idle("slack-mcp") /\ build = "server.ts"
    /\ \E raw \in postPrInputs :
          Begin("post-pr", raw, postPrBasicHandler(raw))

\* variant: the promise the handler awaits is never settled
Settle_Pending(o) == pc' = pc /\ outcome' = outcome

\* the handler ends with outcome o
Settle(o) == pc' = "done" /\ outcome' = o

\* fetch() of a gh-mcp client call resolves with a response
HttpResponse ==
    /\ server = "gh-mcp" /\ pc = "fetch"
    /\ \E resp \in Responses :
          response' = resp /\ Settle(ghAfterResponse(tool, resp))
    /\ UNCHANGED <<exit, inflight, lifecycle, server, build, env, exitCode, config, tool, rawArgs, call, requests, spawns,
                   child, stdout, stderr>>

\* fetch() of the webhook client resolves with a response
WebhookResponse ==
    /\ server = "slack-mcp" /\ pc = "fetch"
    /\ \E status \in SlackStatuses : Settle(slackAfterResponse(tool, status))
    /\ UNCHANGED <<exit, response, inflight, lifecycle, server, build, env, exitCode, config, tool, rawArgs, call, requests, spawns,
                   child, stdout, stderr>>

\* fetch() rejects (network failure): nothing catches it
FetchRejected ==
    /\ pc = "fetch"
    /\ Settle(Thrown("TypeError", "fetch failed", NoInfo))
    /\ UNCHANGED <<exit, response, inflight, lifecycle, server, build, env, exitCode, config, tool, rawArgs, call, requests, spawns,
                   child, stdout, stderr>>

\* ensureRepoPath: the first access() settles
AccessRepoPath ==
    /\ pc = "access"
    /\ LET r == ensureRepoPathExists(call.resolved) IN
       IF r.ok THEN pc' = "accessGit" /\ UNCHANGED outcome
       ELSE Settle(handleGitError(r.error))
    /\ UNCHANGED <<exit, response, inflight, lifecycle, server, build, env, exitCode, config, tool, rawArgs, call, requests, spawns,
                   child, stdout, stderr>>

\* ensureRepoPath: the second access() settles; on success runGitCommand
\* spawns git in the resolved directory
AccessGitDir ==
    /\ pc = "accessGit"
    /\ LET r == ensureRepoPathGit(call.resolved) IN
       IF r.ok
       THEN /\ pc' = "git"
            /\ spawns' = spawns \o spawn(call.argv, call.resolved)
            /\ child' = "running"
            /\ UNCHANGED outcome
       ELSE /\ Settle(handleGitError(r.error))
            /\ UNCHANGED <<spawns, child>>
    /\ UNCHANGED <<exit, response, inflight, lifecycle, server, build, env, exitCode, config, tool, rawArgs, call, requests, stdout, stderr>>

\* child.stdout "data"
ChildStdout ==
    /\ child = "running"
    /\ Len(stdout) + Len(stderr) < MaxOutput
    /\ \E data \in Chunks : stdout' = stdout \o data
    /\ UNCHANGED <<exit, response, inflight, lifecycle, server, build, env, exitCode, config, pc, tool, rawArgs, call, requests, spawns,
                   child, stderr, outcome>>

\* child.stderr "data"
ChildStderr ==
    /\ child = "running"
    /\ Len(stdout) + Len(stderr) < MaxOutput
    /\ \E data \in Chunks : stderr' = stderr \o data
    /\ UNCHANGED <<exit, response, inflight, lifecycle, server, build, env, exitCode, config, pc, tool, rawArgs, call, requests, spawns,
                   child, stdout, outcome>>

\* child "error": rejects the promise if it is still pending
ChildError ==
    /\ child = "running"
    /\ child' = "failed"
    /\ IF pc = "git"
       THEN Settle(localToolSettle(tool, errorResult(call.argv)))
       ELSE UNCHANGED <<pc, outcome>>
    /\ UNCHANGED <<exit, response, inflight, lifecycle, server, build, env, exitCode, config, tool, rawArgs, call, requests, spawns,
                   stdout, stderr>>

\* child "close": settles the promise if it is still pending
ChildClose ==
    /\ child \in {"running", "failed"}
    /\ child' = "closed"
    /\ \E code \in ExitCodes :
          /\ exit' = code
          /\ IF pc = "git"
             THEN Settle(localToolSettle(tool,
                           closeResult(code, call.argv, stdout, stderr)))
             ELSE UNCHANGED <<pc, outcome>>
    /\ UNCHANGED <<response, inflight, lifecycle, server, build, env, exitCode, config, tool, rawArgs, call, requests,
                   spawns, stdout, stderr>>

\* the outcome goes back to the transport and the invocation is discarded
Deliver ==
    /\ pc = "done"
    /\ pc' = "idle"
    /\ tool' = "none"
    /\ rawArgs' = NoArgs
    /\ call' = NoInfo
    /\ requests' = <<>>
    /\ spawns' = <<>>
    /\ child' = "none"
    /\ stdout' = <<>>
    /\ stderr' = <<>>
    /\ exit' = "none"
    /\ response' = NoResponse
    /\ outcome' = NoOutcome
    /\ UNCHANGED <<inflight, lifecycle, server, build, env, exitCode, config>>

Next ==
    \/ ListRepositories
    \/ CreateBranch
    \/ UpdateBranch
    \/ GetCommitStatus
    \/ DeleteRemoteBranch
    \/ CreatePullRequest
    \/ ApprovePullRequest
    \/ MergePullRequest
    \/ GetIssue
    \/ SearchIssues
    \/ ReadRateLimit
    \/ CreateLocalBranch
    \/ GitStatus
    \/ StageChanges
    \/ CreateCommit
    \/ DeleteLocalBranch
    \/ PostMessage
    \/ PostPr
    \/ PostMessageBasic
    \/ PostPrBasic
    \/ HttpResponse
    \/ WebhookResponse
    \/ FetchRejected
    \/ AccessRepoPath
    \/ AccessGitDir
    \/ ChildStdout
    \/ ChildStderr
    \/ ChildError
    \/ ChildClose
    \/ Deliver

Spec == Init /\ [][Next]_vars

---------------------------------------------------------------------------
(* The state machine with several invocations in flight *)

process == <<lifecycle, server, build, env, exitCode, config>>

invocation ==
    <<pc, tool, rawArgs, call, requests, spawns, child, stdout, stderr, exit,
      response, outcome>>

InitConc ==
    /\ \/ \E e \in ConcGhEnvs :
             Startup("gh-mcp", "part_008", e, GhResolveConfig(e))
       \/ \E e \in ConcSlackEnvs, src \in {"part_003", "server.ts"} :
             Startup("slack-mcp", src, e, SlackResolveConfig(e))
    /\ InitInvocation
    /\ inflight = [i \in Slots |-> IdleInvocation]
    /\ lifecycle = Listening

\* a request arrives while other invocations are suspended at an await; it
\* takes the lowest free slot (slot numbers carry no meaning)
Free(name, i) ==
    /\ server = name /\ exitCode = "none"
    /\ inflight[i].pc = "idle"
    /\ \A j \in 1..(i - 1) : inflight[j].pc # "idle"

RECURSIVE CapturedTotal(_, _)
CapturedTotal(s, n) ==
    IF n = 0 THEN 0
    ELSE Len(s[n].stdout) + Len(s[n].stderr) + CapturedTotal(s, n - 1)

ConcGitStatus ==
    /\ \E i \in Slots, raw \in ConcGitStatusInputs :
          /\ Free("gh-mcp", i)
          /\ inflight' = invoke(inflight, i, "git-status", raw)
    /\ UNCHANGED <<process, invocation>>

ConcStageChanges ==
    /\ \E i \in Slots, raw \in ConcStageChangesInputs :
          /\ Free("gh-mcp", i)
          /\ inflight' = invoke(inflight, i, "stage-changes", raw)
    /\ UNCHANGED <<process, invocation>>

ConcReadRateLimit ==
    /\ \E i \in Slots :
          /\ Free("gh-mcp", i)
          /\ inflight' = invoke(inflight, i, "rate-limit", NoArgs)
    /\ UNCHANGED <<process, invocation>>

ConcPostPr ==
    /\ \E i \in Slots, raw \in ConcPostPrInputs :
          /\ Free("slack-mcp", i)
          /\ inflight' = invoke(inflight, i, "post-pr", raw)
    /\ UNCHANGED <<process, invocation>>

ConcAccessRepoPath ==
    /\ \E i \in Slots :
          /\ inflight[i].pc = "access"
          /\ inflight' = accessSettled(inflight, i)
    /\ UNCHANGED <<process, invocation>>

ConcAccessGitDir ==
    /\ \E i \in Slots :
          /\ inflight[i].pc = "accessGit"
          /\ inflight' = accessGitSettled(inflight, i)
    /\ UNCHANGED <<process, invocation>>

ConcChildStdout ==
    /\ \E i \in Slots : \E data \in ConcChunks(inflight[i]) :
          /\ inflight[i].child = "running"
          /\ CapturedTotal(inflight, MaxInFlight) < MaxOutput
          /\ inflight' = stdoutData(inflight, i, data)
    /\ UNCHANGED <<process, invocation>>

ConcChildStderr ==
    /\ \E i \in Slots : \E data \in ConcChunks(inflight[i]) :
          /\ inflight[i].child = "running"
          /\ CapturedTotal(inflight, MaxInFlight) < MaxOutput
          /\ inflight' = stderrData(inflight, i, data)
    /\ UNCHANGED <<process, invocation>>

\* git could not be spawned: the child fails before it writes anything
ConcChildError ==
    /\ \E i \in Slots :
          /\ inflight[i].child = "running"
          /\ inflight[i].stdout = <<>> /\ inflight[i].stderr = <<>>
          /\ inflight' = childErrored(inflight, i)
    /\ UNCHANGED <<process, invocation>>

ConcChildClose ==
    /\ \E i \in Slots, code \in ConcExitCodes :
          /\ inflight[i].child \in {"running", "failed"}
          /\ inflight' = childClosed(inflight, i, code)
    /\ UNCHANGED <<process, invocation>>

ConcHttpResponse ==
    /\ server = "gh-mcp"
    /\ \E i \in Slots, resp \in ConcResponses :
          /\ inflight[i].pc = "fetch"
          /\ inflight' = fetchResolved(inflight, i, resp)
    /\ UNCHANGED <<process, invocation>>

ConcWebhookResponse ==
    /\ server = "slack-mcp"
    /\ \E i \in Slots, status \in ConcStatuses :
          /\ inflight[i].pc = "fetch"
          /\ inflight' = fetchResolved(inflight, i, status)
    /\ UNCHANGED <<process, invocation>>

ConcFetchRejected ==
    /\ \E i \in Slots :
          /\ inflight[i].pc = "fetch"
          /\ inflight' = fetchRejected(inflight, i)
    /\ UNCHANGED <<process, invocation>>

ConcDeliver ==
    /\ \E i \in Slots :
          /\ inflight[i].pc = "done"
          /\ inflight' = delivered(inflight, i)
    /\ UNCHANGED <<process, invocation>>

NextConc ==
    \/ ConcGitStatus
    \/ ConcStageChanges
    \/ ConcReadRateLimit
    \/ ConcPostPr
    \/ ConcAccessRepoPath
    \/ ConcAccessGitDir
    \/ ConcChildStdout
    \/ ConcChildStderr
    \/ ConcChildError
    \/ ConcChildClose
    \/ ConcHttpResponse
    \/ ConcWebhookResponse
    \/ ConcFetchRejected
    \/ ConcDeliver

SpecConc == InitConc /\ [][NextConc]_vars

---------------------------------------------------------------------------
(* The state machine with a backend that answers *)

\* every pending fetch is eventually resolved or rejected, every access()
\* eventually settles and every spawned child eventually closes; the
\* gateway itself adds nothing: it has no timer and cancels nothing
BackendResponds ==
    /\ WF_pc(HttpResponse)
    /\ WF_pc(WebhookResponse)
    /\ WF_pc(AccessRepoPath)
    /\ WF_pc(AccessGitDir)
    /\ WF_child(ChildClose)

SpecLive == Init /\ [][Next]_vars /\ BackendResponds

---------------------------------------------------------------------------
(* Properties *)

HttpTools ==
    {"list-repositories", "create-branch", "update-branch", "get-commit-status",
     "delete-remote-branch", "create-pull-request", "approve-pull-request",
     "merge-pull-request", "get-issue", "search-issues", "rate-limit"}

LocalTools ==
    {"create-local-branch", "git-status", "stage-changes", "create-commit",
     "delete-local-branch"}

SlackTools == {"post-message", "post-pr"}

\* the invocation ended in an error: an isError result or an exception
ErrorOutcome(o) == o.kind = "thrown" \/ (o.kind = "result" /\ o.isError)

EndsWith(s, suffix) ==
    Len(s) >= Len(suffix)
        /\ SubSeq(s, Len(s) - Len(suffix) + 1, Len(s)) = suffix

\* whether the raw payload satisfies the schema of tool t
SchemaValid(t, raw) ==
    CASE t = "list-repositories" -> listRepositoriesArgsValid(raw)
      [] t = "create-branch" -> branchArgsValid(raw)
      [] t = "update-branch" -> updateBranchArgsValid(raw)
      [] t = "get-commit-status" -> getCommitStatusArgsValid(raw)
      [] t = "delete-remote-branch" -> deleteRemoteBranchArgsValid(raw)
      [] t = "create-pull-request" -> createPullRequestArgsValid(raw)
      [] t = "approve-pull-request" -> pullNumberArgsValid(raw)
      [] t = "merge-pull-request" -> mergePullRequestArgsValid(raw)
      [] t = "get-issue" -> getIssueArgsValid(raw)
      [] t = "search-issues" -> searchIssuesArgsValid(raw)
      [] t = "create-local-branch" -> createLocalBranchArgsValid(raw)
      [] t = "git-status" -> localRepositoryArgsValid(raw)
      [] t = "stage-changes" -> stageChangesArgsValid(raw)
      [] t = "create-commit" -> createCommitArgsValid(raw)
      [] t = "delete-local-branch" -> deleteLocalBranchArgsValid(raw)
      [] t = "post-message" ->
            IF build = "server.ts" THEN postMessageBasicArgsValid(raw)
            ELSE postMessageArgsValid(raw)
      [] t = "post-pr" ->
            IF build = "server.ts" THEN postPullRequestBasicArgsValid(raw)
            ELSE postPullRequestArgsValid(raw)
      [] OTHER -> TRUE

\* C1: an invocation of delete-local-branch or delete-remote-branch whose
\* branch argument is literally `main` has ended in an error, and no
\* subprocess was spawned and no HTTP request issued during it.
C1_MainDeleteRefused ==
    (tool \in {"delete-local-branch", "delete-remote-branch"}
        /\ rawArgs.branch = Main)
    => /\ pc = "done"
       /\ ErrorOutcome(outcome)
       /\ requests = <<>>
       /\ spawns = <<>>

\* C1 witness: delete-remote-branch of `main` with a usable owner and repo
\* is refused by the guard itself
C1_Witness ==
    /\ tool = "delete-remote-branch"
    /\ rawArgs.branch = Main
    /\ rawArgs.owner = <<"o">>
    /\ rawArgs.repo = <<"r">>
    /\ outcome = toolError("Refusing to delete the remote main branch.")
    /\ requests = <<>>

\* C2: no DELETE request is ever issued whose path is
\* /repos/{owner}/{repo}/git/refs/heads/main, whatever form the branch
\* argument of delete-remote-branch takes.
C2_NoDeleteOfMain ==
    server = "gh-mcp" =>
        \A i \in 1..Len(requests) :
            ~(/\ requests[i].method = "DELETE"
              /\ StartsWith(requests[i].path, ReposPath)
              /\ EndsWith(requests[i].path, GitRefsHeadsPath \o Main))

\* a webhookUrl / webhookName counts as supplied when it is a non-empty
\* string (empty per-call values are treated as absent)
Supplied(v) == Truthy(v)

\* a webhook tool invocation whose payload passed validation and whose
\* handler went on to call the webhook client
WebhookCall ==
    /\ tool \in SlackTools
    /\ SchemaValid(tool, rawArgs)
    /\ (build = "server.ts" /\ tool = "post-message")
          => (Truthy(rawArgs.text) \/ rawArgs.blocks # NoArray
                \/ rawArgs.attachments # NoArray)

\* the invocation posted to url, once, and nowhere else
PostedTo(url) ==
    Len(requests) = 1 /\ requests[1].method = "POST" /\ requests[1].url = url

OwnValue(name) ==
    config.webhookMap[CHOOSE i \in 1..Len(config.webhookMap) :
                          config.webhookMap[i].key = name].value

C4_MapOnlyResolution ==
    (WebhookCall /\ ~Truthy(config.defaultWebhookUrl)
        /\ ~Supplied(rawArgs.webhookUrl)) =>
        IF Supplied(rawArgs.webhookName)
        THEN IF HasOwn(config.webhookMap, rawArgs.webhookName)
             THEN PostedTo(OwnValue(rawArgs.webhookName))
             ELSE /\ requests = <<>>
                  /\ outcome = Thrown("Error", "Unknown webhook name", NoInfo)
        ELSE /\ requests = <<>>
             /\ outcome = Thrown("Error", "No Slack webhook configured.", NoInfo)

\* both a default URL and a non-empty map are configured
BothConfigured ==
    server = "slack-mcp" /\ pc # "exited"
        /\ Truthy(config.defaultWebhookUrl) /\ Len(config.webhookMap) > 0

AdapterErrorTexts ==
    {"GitHub API request failed with <status>",
     "fetch failed",
     "Slack webhook returned <status>",
     "Unknown webhook name",
     "No Slack webhook configured.",
     "Repository path does not exist: <resolved>",
     "Path is not a git repository (missing .git directory): <resolved>",
     "git <args> exited with code <code>",
     "Failed to execute git command: git <args>"}

\* C6: whenever an adapter failure ends an invocation, the handler returns
\* a result with isError set; the exception never leaves the handler.
C6_AdapterErrorsRendered ==
    (pc = "done" /\ outcome.text \in AdapterErrorTexts)
    => (outcome.kind = "result" /\ outcome.isError)

\* C7: a payload that violates the tool's schema ends the invocation with
\* the validation failure, with no HTTP request and no subprocess: the
\* payload is validated before defaults are merged and before any adapter
\* call.
C7_ValidationFirst ==
    (tool # "none" /\ ~SchemaValid(tool, rawArgs))
    => /\ pc = "done"
       /\ outcome = ZodError
       /\ requests = <<>>
       /\ spawns = <<>>

\* C7 witness: list-repositories with an out-of-range perPage, for an
\* organization, with no owner and no default owner: the failure is the
\* validation failure
C7_Witness ==
    /\ tool = "list-repositories"
    /\ rawArgs.perPage = Num(0)
    /\ rawArgs.ownerType = "org"
    /\ rawArgs.owner = Absent
    /\ config.defaultOwner = Absent
    /\ outcome = ZodError

\* C8: an invocation performs at most one outbound HTTP request or one
\* subprocess spawn in total, on failure paths too.
C8_AtMostOneBackendCall == Len(requests) + Len(spawns) <= 1

\* C8 witness: an HTTP tool whose single request failed
C8_Witness ==
    /\ tool \in HttpTools
    /\ pc = "done"
    /\ outcome.text = "GitHub API request failed with <status>"
    /\ Len(requests) = 1

\* C9: list-repositories with ownerType "org", no owner argument and no
\* configured default owner ends in an error with no HTTP request issued.
C9_OrgNeedsOwner ==
    (tool = "list-repositories" /\ rawArgs.ownerType = "org"
        /\ rawArgs.owner = Absent /\ ~Truthy(config.defaultOwner))
    => /\ pc = "done"
       /\ ErrorOutcome(outcome)
       /\ requests = <<>>

\* C9 witness: such an invocation with an otherwise valid payload
C9_Witness ==
    /\ tool = "list-repositories"
    /\ rawArgs.ownerType = "org"
    /\ rawArgs.owner = Absent
    /\ config.defaultOwner = Absent
    /\ SchemaValid(tool, rawArgs)
    /\ outcome.isError
    /\ requests = <<>>

\* the repository path of a local tool invocation passes the preflight
PreflightPasses(repoPath) ==
    /\ IsString(repoPath)
    /\ repoPath # <<>>
    /\ resolve(repoPath) \in ExistingPaths
    /\ resolve(repoPath) \in GitRepos

\* C10: for every local git tool the preflight completes before a
\* subprocess is spawned: with an empty, non-existent or .git-less path
\* the call fails and nothing is spawned; a subprocess is spawned only
\* after both checks succeeded, in the resolved directory.
C10_PreflightBeforeSpawn ==
    tool \in LocalTools =>
        /\ ~PreflightPasses(rawArgs.repoPath) =>
              /\ spawns = <<>>
              /\ pc # "git"
              /\ pc = "done" => ErrorOutcome(outcome)
        /\ spawns # <<>> =>
              /\ PreflightPasses(rawArgs.repoPath)
              /\ pc \notin {"access", "accessGit"}
              /\ spawns[1].cwd = resolve(rawArgs.repoPath)

\* C10 witness: a local tool given an existing directory without .git
\* ended in the not-a-repository error with nothing spawned
C10_Witness ==
    /\ tool \in LocalTools
    /\ rawArgs.repoPath = <<"/", "n">>
    /\ pc = "done"
    /\ outcome.text = "Path is not a git repository (missing .git directory): <resolved>"
    /\ spawns = <<>>

\* the tool invocation got a non-success response from the GitHub API
FailedResponse == pc = "done" /\ response # NoResponse /\ ~Ok(response)

\* C11 as stated: after a non-success response whose x-ratelimit-remaining
\* header is exactly "0" and whose x-ratelimit-reset header is present, the
\* error message contains the reset time formatted from the header read as
\* epoch seconds; in every other case the message carries no reset time.
C11_RateLimitReset ==
    FailedResponse
    => IF response.remaining = <<"0">> /\ response.reset # Absent
       THEN /\ outcome.kind = "thrown" /\ outcome.error = "Error"
            /\ LET seconds == parseInt(response.reset) IN
               seconds # NaN /\ outcome.info.reset = toISOString(seconds.n)
       ELSE /\ outcome.kind = "thrown" /\ outcome.error = "Error"
            /\ outcome.info.reset = Absent

\* the valid part of C11: a reset header that holds epoch seconds is
\* formatted into the message
C11_NumericReset ==
    /\ FailedResponse
    /\ response.remaining = <<"0">>
    /\ response.reset = Str_1700000000
    /\ outcome.info.reset = <<"2", "0", "2", "3", "-", "1", "1", "-", "1", "4", "T", "2", "2", ":", "1", "3", ":", "2", "0", ".", "0", "0", "0", "Z">>

\* an update-branch or delete-remote-branch invocation that reached the
\* GitHub API
BranchRequest ==
    tool \in {"update-branch", "delete-remote-branch"} /\ requests # <<>>

\* the request addresses the reference refs/heads/B of the repository
Addresses(B) ==
    /\ StartsWith(requests[1].path, ReposPath)
    /\ EndsWith(requests[1].path, <<"/", "g", "i", "t", "/">>
                    \o RefsHeadsPrefix \o BranchPath(B))

\* C12 as stated: for every branch name B, the inputs B and refs/heads/B
\* both address refs/heads/B, and normalizing a normalized name changes
\* nothing. The branch argument X of the invocation is read both as a
\* name B and, when it starts with refs/heads/, as refs/heads/ + B.
C12_BranchRoundTrip ==
    BranchRequest =>
        LET X == rawArgs.branch IN
        /\ Addresses(X)
        /\ StartsWith(X, RefsHeadsPrefix) => Addresses(StripRefsHeads(X))
        /\ StripRefsHeads(StripRefsHeads(X)) = StripRefsHeads(X)

\* C12 amended: for every branch name B that does not itself begin with
\* refs/heads/, the inputs B and refs/heads/B both address refs/heads/B,
\* and normalizing B changes nothing.
C12_BareBranchRoundTrip ==
    BranchRequest =>
        LET X == rawArgs.branch
            B == IF StartsWith(X, RefsHeadsPrefix)
                 THEN SubSeq(X, Len(RefsHeadsPrefix) + 1, Len(X))
                 ELSE X
        IN  ~StartsWith(B, RefsHeadsPrefix)
                => Addresses(B) /\ StripRefsHeads(B) = B

\* C12 witness: update-branch called with refs/heads/f/x sent its PATCH to
\* .../git/refs/heads/f/x
C12_Witness ==
    /\ tool = "update-branch"
    /\ rawArgs.branch = RefsHeadsPrefix \o <<"f", "/", "x">>
    /\ requests # <<>>
    /\ requests[1].method = "PATCH"
    /\ EndsWith(requests[1].path, <<"/", "g", "i", "t", "/", "r", "e", "f", "s", "/", "h", "e", "a", "d", "s", "/", "f", "/", "x">>)

\* the failure the close handler raises for exit code `code`, as
\* handleGitError renders it: the message with the argument vector and
\* the code, then a newline and the trimmed stderr unless it is blank
ExitFailure(argv, code, err) ==
    [kind |-> "result", isError |-> TRUE, error |-> "none",
     text |-> "git <args> exited with code <code>",
     info |-> [args |-> [argv |-> argv, code |-> code],
               details |-> IF Trim(err) = <<>> THEN <<>>
                           ELSE <<"\n">> \o Trim(err)]]

\* the child of the current invocation has closed with a code other than 0
ClosedNonZero == child = "closed" /\ exit # "0"

WebhookPosted == server = "slack-mcp" /\ Len(requests) = 1

\* the keys of the posted payload, and the value under a key
PayloadKeys == {requests[1].payload[i].key : i \in 1..Len(requests[1].payload)}

PayloadValue(key) ==
    requests[1].payload[CHOOSE i \in 1..Len(requests[1].payload) :
                            requests[1].payload[i].key = key].value

\* the effective sender value: the per-call one when it is non-empty after
\* trimming, otherwise the configured one when set, otherwise none
Effective(perCall, configured) ==
    IF perCall # Absent /\ Trim(perCall) # <<>> THEN Trim(perCall)
    ELSE IF configured # Absent /\ configured # <<>> THEN configured
    ELSE Absent

\* C14: the posted payload has the key text iff the text handed to the
\* client is non-empty, blocks iff blocks were handed over, attachments iff
\* attachments were, username iff there is an effective sender name and
\* icon_emoji iff there is an effective icon; there are no other keys, no
\* key twice, and no key whose value is undefined.
C14_PayloadKeys ==
    WebhookPosted =>
        LET o == call.options
            p == requests[1].payload
        IN  /\ "text" \in PayloadKeys <=> (o.text # Absent /\ o.text # <<>>)
            /\ "blocks" \in PayloadKeys <=> o.blocks # NoArray
            /\ "attachments" \in PayloadKeys <=> o.attachments # NoArray
            /\ "username" \in PayloadKeys
                  <=> Effective(o.username, config.username) # Absent
            /\ "icon_emoji" \in PayloadKeys
                  <=> Effective(o.iconEmoji, config.iconEmoji) # Absent
            /\ PayloadKeys \subseteq
                  {"text", "blocks", "attachments", "username", "icon_emoji"}
            /\ Cardinality(PayloadKeys) = Len(p)
            /\ \A i \in 1..Len(p) :
                  IF p[i].key \in {"blocks", "attachments"}
                  THEN p[i].value # NoArray
                  ELSE p[i].value # Absent /\ p[i].value # <<>>

\* C14 witness: a post with blocks only: no text, no attachments, no
\* sender name and no icon, so the payload has the single key blocks
C14_Witness ==
    /\ WebhookPosted
    /\ call.options.text = Absent
    /\ call.options.blocks = Array(0)
    /\ config.username = Absent
    /\ PayloadKeys = {"blocks"}

\* C15 as stated: post-message and post-pr both take per-call username and
\* iconEmoji, and in the posted payload username is the per-call value
\* (trimmed) when that is non-empty after trimming, otherwise the
\* configured SLACK_USERNAME when set, otherwise the key is omitted;
\* icon_emoji likewise.
C15_OverrideWins ==
    (WebhookPosted /\ WebhookCall) =>
        LET username == Effective(rawArgs.username, config.username)
            iconEmoji == Effective(rawArgs.iconEmoji, config.iconEmoji)
        IN  /\ IF username = Absent THEN "username" \notin PayloadKeys
               ELSE "username" \in PayloadKeys
                        /\ PayloadValue("username") = username
            /\ IF iconEmoji = Absent THEN "icon_emoji" \notin PayloadKeys
               ELSE "icon_emoji" \in PayloadKeys
                        /\ PayloadValue("icon_emoji") = iconEmoji

\* the part of C15 that holds: the tools of part_003 apply the precedence
C15_OverrideWinsRich == build = "part_003" => C15_OverrideWins

\* the tools of part_003 sent a padded per-call username, trimmed, in
\* place of the configured one
C15_RichOverride ==
    /\ WebhookPosted /\ build = "part_003"
    /\ rawArgs.username = <<" ", "b">>
    /\ config.username = <<"c">>
    /\ PayloadValue("username") = <<"b">>

\* the process got past startup
Started == pc # "exited"

\* a string taken from the environment, after normalization: absent, or
\* non-empty with no whitespace at either end
Clean(v) == v = Absent \/ (v # <<>> /\ Trim(v) = v)

\* SLACK_WEBHOOK_MAP is set to something that is not a flat JSON object of
\* non-blank strings
MalformedWebhookMap(raw) ==
    \/ raw.json \in {"invalid", "array", "null", "scalar"}
    \/ /\ raw.json = "object"
       /\ \E i \in 1..Len(raw.entries) :
             \/ raw.entries[i].value.t # "string"
             \/ \A j \in 1..Len(raw.entries[i].value.s) :
                   IsSpace(raw.entries[i].value.s[j])

\* SLACK_WEBHOOK_MAP names no webhook
EmptyWebhookMap(raw) ==
    raw.json \in {"unset", "empty"} \/ (raw.json = "object" /\ raw.entries = <<>>)

\* C16: a webhook configuration that resolveConfig returned has a default
\* URL or at least one map entry, and every map value is a non-empty
\* string without whitespace at either end; resolveConfig fails exactly
\* when SLACK_WEBHOOK_MAP is not valid JSON, not a flat object, has a
\* non-string or blank value, or when the default URL and the map are
\* both missing.
C16_WebhookConfigInvariant ==
    server = "slack-mcp" =>
        /\ Started =>
              /\ (config.defaultWebhookUrl # Absent
                    /\ config.defaultWebhookUrl # <<>>)
                 \/ Len(config.webhookMap) >= 1
              /\ \A i \in 1..Len(config.webhookMap) :
                    /\ config.webhookMap[i].value # <<>>
                    /\ Clean(config.webhookMap[i].value)
        /\ ~Started <=>
              \/ MalformedWebhookMap(env.SLACK_WEBHOOK_MAP)
              \/ /\ EmptyWebhookMap(env.SLACK_WEBHOOK_MAP)
                 /\ \/ env.SLACK_WEBHOOK_URL = Absent
                    \/ \A j \in 1..Len(env.SLACK_WEBHOOK_URL) :
                          IsSpace(env.SLACK_WEBHOOK_URL[j])

\* C16 witness: the map value " u:b " was accepted and is held trimmed
C16_Witness ==
    /\ server = "slack-mcp" /\ Started
    /\ env.SLACK_WEBHOOK_URL = Absent
    /\ env.SLACK_WEBHOOK_MAP.json = "object"
    /\ env.SLACK_WEBHOOK_MAP.entries[1].value.s = <<" ">> \o UrlB \o <<" ">>
    /\ config.webhookMap[1].value = UrlB
    /\ pc = "done"

\* the environment with every empty or whitespace-only value unset
Unblank(v) == IF v # Absent /\ Trim(v) = <<>> THEN Absent ELSE v

UnblankGh(e) ==
    [GITHUB_TOKEN |-> Unblank(e.GITHUB_TOKEN),
     GITHUB_DEFAULT_OWNER |-> Unblank(e.GITHUB_DEFAULT_OWNER),
     GITHUB_USER_AGENT |-> Unblank(e.GITHUB_USER_AGENT)]

UnblankSlack(e) ==
    [SLACK_WEBHOOK_URL |-> Unblank(e.SLACK_WEBHOOK_URL),
     SLACK_WEBHOOK_MAP |-> e.SLACK_WEBHOOK_MAP,
     SLACK_USERNAME |-> Unblank(e.SLACK_USERNAME),
     SLACK_ICON_EMOJI |-> Unblank(e.SLACK_ICON_EMOJI)]

\* C17 as stated: in a resolved configuration of either server every
\* string taken from the environment is absent (or defaulted) or a
\* non-empty string without whitespace at either end, and the process
\* started with an empty or whitespace-only value is configured exactly as
\* if the value were unset.
C17_EnvNormalized ==
    IF server = "gh-mcp"
    THEN /\ Started =>
               /\ Clean(config.token)
               /\ Clean(config.defaultOwner)
               /\ Clean(config.userAgent)
         /\ LET r == GhResolveConfig(UnblankGh(env)) IN
            /\ Started <=> r.ok
            /\ Started => config = r.value
    ELSE /\ Started =>
               /\ Clean(config.defaultWebhookUrl)
               /\ Clean(config.username)
               /\ Clean(config.iconEmoji)
         /\ LET r == SlackResolveConfig(UnblankSlack(env)) IN
            /\ Started <=> r.ok
            /\ Started => config = r.value

\* the part of C17 that holds: the webhook server normalizes its inputs
C17_SlackEnvNormalized == server = "slack-mcp" => C17_EnvNormalized

\* required configuration is missing or malformed: no usable hosting
\* token, or no valid webhook configuration
RequiredConfigMissing ==
    IF server = "gh-mcp"
    THEN env.GITHUB_TOKEN = Absent \/ env.GITHUB_TOKEN = <<>>
    ELSE \/ MalformedWebhookMap(env.SLACK_WEBHOOK_MAP)
         \/ /\ EmptyWebhookMap(env.SLACK_WEBHOOK_MAP)
            /\ \/ env.SLACK_WEBHOOK_URL = Absent
               \/ \A j \in 1..Len(env.SLACK_WEBHOOK_URL) :
                     IsSpace(env.SLACK_WEBHOOK_URL[j])

EffectiveOwner ==
    IF rawArgs.owner # Absent /\ rawArgs.owner # <<>> THEN rawArgs.owner
    ELSE IF config.defaultOwner # Absent /\ config.defaultOwner # <<>>
    THEN config.defaultOwner
    ELSE Absent

\* C20 as stated: the list-repositories request goes to /orgs/{owner}/repos
\* for an effective owner of kind org, to /users/{owner}/repos for an
\* effective owner of kind user, and to /user/repos exactly when there is
\* neither a caller-supplied owner nor a configured default owner.
C20_ListPathByOwner ==
    (tool = "list-repositories" /\ requests # <<>>) =>
        requests[1].path =
            IF EffectiveOwner = Absent THEN <<"/", "u", "s", "e", "r", "/", "r", "e", "p", "o", "s">>
            ELSE IF rawArgs.ownerType = "org"
            THEN <<"/", "o", "r", "g", "s", "/">> \o EffectiveOwner \o <<"/", "r", "e", "p", "o", "s">>
            ELSE <<"/", "u", "s", "e", "r", "s", "/">> \o EffectiveOwner \o <<"/", "r", "e", "p", "o", "s">>

\* the part of C20 that holds: the path follows the owner the handler
\* computes with `args.owner ?? config.defaultOwner`, where an empty owner
\* argument hides the configured default
C20_ListPathByCoalescedOwner ==
    (tool = "list-repositories" /\ requests # <<>>) =>
        LET owner == IF rawArgs.owner # Absent THEN rawArgs.owner
                     ELSE config.defaultOwner
        IN  requests[1].path =
                IF owner = Absent \/ owner = <<>> THEN <<"/", "u", "s", "e", "r", "/", "r", "e", "p", "o", "s">>
                ELSE IF rawArgs.ownerType = "org"
                THEN <<"/", "o", "r", "g", "s", "/">> \o owner \o <<"/", "r", "e", "p", "o", "s">>
                ELSE <<"/", "u", "s", "e", "r", "s", "/">> \o owner \o <<"/", "r", "e", "p", "o", "s">>

\* invocation (t, raw) run with nothing else in flight and handed the
\* backend events evs
RECURSIVE Replay(_, _, _)
Replay(s, evs, k) ==
    IF k > Len(evs) THEN s
    ELSE Replay(OnEvent(s, 1, evs[k]), evs, k + 1)

Alone(t, raw, evs) ==
    Replay(invoke([j \in {1} |-> IdleInvocation], 1, t, raw), evs, 1)

\* what the child of one invocation wrote to a stream
RECURSIVE Written(_, _)
Written(evs, stream) ==
    IF evs = <<>> THEN <<>>
    ELSE (IF Head(evs).type = stream THEN Head(evs).data ELSE <<>>)
            \o Written(Tail(evs), stream)

ConstructedConfig ==
    IF server = "gh-mcp" THEN GhResolveConfig(env).value
    ELSE SlackResolveConfig(env).value

---------------------------------------------------------------------------
(* GitHubClient called directly, with arguments no schema has filtered *)

\* how far beyond [1, MaxPerPage] the page sizes tried reach
PageSlack == 3

PageSizes == (0 - PageSlack)..(MaxPerPage + PageSlack)

\* a method of the client is called and runs to its `await fetch(...)`
ClientCall(method, args, req) ==
    Begin(method, args, AwaitFetch(request(req), NoInfo))

ClientListRepositories ==
    /\ Idle("gh-mcp")
    /\ \E owner \in {Absent, <<"o">>}, ownerType \in {"user", "org"},
          perPage \in PageSizes, includePrivate \in BOOLEAN :
          ClientCall("listRepositories",
                     [owner |-> owner, ownerType |-> ownerType,
                      perPage |-> Num(perPage),
                      includePrivate |-> includePrivate],
                     listRepositories(owner, ownerType, perPage, includePrivate))

ClientSearchIssues ==
    /\ Idle("gh-mcp")
    /\ \E query \in {<<>>, <<"q">>}, perPage \in PageSizes :
          ClientCall("searchIssues",
                     [query |-> query, perPage |-> Num(perPage)],
                     searchIssues(query, perPage))

\* the fetch resolves: the method's promise rejects with what request()
\* throws, or fulfils with the payload
ClientResolved ==
    /\ server = "gh-mcp" /\ pc = "fetch"
    /\ \E resp \in Responses :
          /\ response' = resp
          /\ LET r == requestResult(resp) IN
             Settle(IF r.kind = "throw" THEN r.error ELSE toolText("<payload>"))
    /\ UNCHANGED <<exit, inflight, lifecycle, server, build, env, exitCode, config, tool,
                   rawArgs, call, requests, spawns, child, stdout, stderr>>

InitClient ==
    /\ \E e \in GhEnvs : Startup("gh-mcp", "part_008", e, GhResolveConfig(e))
    /\ InitInvocation
    /\ inflight = [i \in Slots |-> IdleInvocation]
    /\ lifecycle = Listening

NextClient ==
    \/ ClientListRepositories
    \/ ClientSearchIssues
    \/ ClientResolved
    \/ FetchRejected
    \/ Deliver

SpecClient == InitClient /\ [][NextClient]_vars

ClientPaged == tool \in {"listRepositories", "searchIssues"} /\ requests # <<>>

\* C21: whatever integer page size listRepositories or searchIssues is
\* called with, the per_page parameter of the request is in [1, 100]: the
\* input itself when that is in range, 1 when it is below, 100 when above.
C21_PerPageClamped ==
    ClientPaged =>
        LET p == rawArgs.perPage.n
            sent == requests[1].search.per_page
        IN  /\ sent \in 1..100
            /\ (p \in 1..100 => sent = p)
            /\ (p < 1 => sent = 1)
            /\ (p > 100 => sent = 100)

\* searchIssues was called with a page size below 1
C21_Witness ==
    /\ tool = "searchIssues" /\ requests # <<>>
    /\ rawArgs.perPage.n < 0
    /\ requests[1].search.per_page = 1

\* the hosting tools that take an owner, list-repositories apart
OwnerTools ==
    {"create-branch", "update-branch", "delete-remote-branch",
     "get-commit-status", "create-pull-request", "approve-pull-request",
     "merge-pull-request", "get-issue"}

\* a schema-valid invocation of an owner-taking tool; deleting main is
\* refused whatever the owner
OwnerResolved ==
    /\ tool \in OwnerTools /\ SchemaValid(tool, rawArgs)
    /\ ~(tool = "delete-remote-branch" /\ StripRefsHeads(rawArgs.branch) = Main)

\* C22 as stated: the request of an owner-taking tool is addressed to the
\* caller-supplied owner when one is given, otherwise to the configured
\* default owner; when there is neither, the invocation ends in an error
\* and no request is issued.
C22_OwnerFallback ==
    OwnerResolved =>
        IF EffectiveOwner = Absent
        THEN requests = <<>> /\ pc = "done" /\ ErrorOutcome(outcome)
        ELSE /\ Len(requests) = 1
             /\ StartsWith(requests[1].path, ReposPath \o EffectiveOwner \o <<"/">>)

\* the part of C22 that holds: the owner is `args.owner ?? defaultOwner`,
\* so an empty owner argument is not replaced by the configured default and
\* the invocation is refused
C22_OwnerCoalesced ==
    OwnerResolved =>
        LET owner == IF rawArgs.owner # Absent THEN rawArgs.owner
                     ELSE config.defaultOwner
        IN  IF owner = Absent \/ owner = <<>>
            THEN requests = <<>> /\ pc = "done" /\ ErrorOutcome(outcome)
            ELSE /\ Len(requests) = 1
                 /\ StartsWith(requests[1].path, ReposPath \o owner \o <<"/">>)

\* C23 as stated: an empty per-call override is treated as absent in every
\* fallback chain: list-repositories called with an empty owner issues the
\* request it issues with no owner argument (so it goes to the configured
\* default owner); an empty webhookName is skipped and the default URL is
\* the target; an empty or whitespace-only username or iconEmoji leaves
\* the configured sender default in the payload.
C23_EmptyOverridesAbsent ==
    /\ (tool = "list-repositories" /\ SchemaValid(tool, rawArgs)
            /\ rawArgs.owner = <<>>)
         => requests =
                listRepositoriesHandler([rawArgs EXCEPT !.owner = Absent]).fetches
    /\ (WebhookCall /\ rawArgs.webhookName = <<>> /\ rawArgs.webhookUrl = Absent)
         => IF Truthy(config.defaultWebhookUrl)
            THEN PostedTo(config.defaultWebhookUrl)
            ELSE requests = <<>> /\ pc = "done" /\ ErrorOutcome(outcome)
    /\ (WebhookCall /\ WebhookPosted)
         => /\ (rawArgs.username # Absent /\ Trim(rawArgs.username) = <<>>)
                 => IF Truthy(config.username)
                    THEN "username" \in PayloadKeys
                            /\ PayloadValue("username") = config.username
                    ELSE "username" \notin PayloadKeys
            /\ (rawArgs.iconEmoji # Absent /\ Trim(rawArgs.iconEmoji) = <<>>)
                 => IF Truthy(config.iconEmoji)
                    THEN "icon_emoji" \in PayloadKeys
                            /\ PayloadValue("icon_emoji") = config.iconEmoji
                    ELSE "icon_emoji" \notin PayloadKeys

\* the part of C23 that holds: the webhook client's chains (URL resolution
\* and sender) skip empty values
C23_EmptyWebhookOverridesAbsent == server = "slack-mcp" => C23_EmptyOverridesAbsent

\* where the current invocation is in its lifecycle; Received and Validated
\* are passed inside the handler's synchronous part, before its first await
Phase ==
    CASE pc \in {"fetch", "access", "accessGit", "git"} -> "Dispatched"
      [] pc = "done" -> IF ErrorOutcome(outcome) THEN "Failed" ELSE "Succeeded"
      [] OTHER -> "None"

Terminal == Phase \in {"Succeeded", "Failed"}

\* one step of the lifecycle: a new invocation is dispatched or fails at
\* once (a payload that fails validation always fails at once, with no
\* backend touched); a dispatched one stays dispatched or ends; an ended
\* one keeps its outcome until it is handed back
LifecycleStep ==
    /\ Phase = "None" =>
          /\ Phase' \in {"None", "Dispatched", "Failed"}
          /\ (Phase' # "None" /\ ~SchemaValid(tool', rawArgs'))
                => Phase' = "Failed" /\ requests' = <<>> /\ spawns' = <<>>
    /\ Phase = "Dispatched" =>
          /\ Phase' \in {"Dispatched", "Succeeded", "Failed"}
          /\ tool' = tool /\ rawArgs' = rawArgs
    /\ Terminal =>
          \/ Phase' = Phase /\ outcome' = outcome /\ tool' = tool
                /\ rawArgs' = rawArgs
          \/ Phase' = "None" /\ pc' = "idle"

\* C24: an invocation passes Received, Validated, Dispatched and then
\* Succeeded or Failed in that order, never backwards, and its terminal
\* state and outcome do not change afterwards; when the backend answers
\* every pending call, every dispatched invocation ends.
C24_Lifecycle ==
    /\ [][LifecycleStep]_vars
    /\ (Phase = "Dispatched") ~> Terminal

\* a child failed to spawn, which ended the invocation, and then closed
C24_Witness ==
    /\ Phase = "Failed" /\ child = "closed" /\ spawns # <<>>
    /\ outcome.text = "Failed to execute git command: git <args>"

\* without an answering backend a dispatched invocation need not end: the
\* gateway has no timeout of its own
C24_EndsWithoutBackend == (Phase = "Dispatched") ~> Terminal

\* C25 as stated: whatever branch argument create-branch accepts, the ref
\* field of the create-reference request body starts with refs/heads/.
C25_CreatesBranchesOnly ==
    (tool = "create-branch" /\ requests # <<>>) =>
        /\ requests[1].method = "POST"
        /\ StartsWith(requests[1].body.ref, RefsHeadsPrefix)

\* the part of C25 that holds: the ref is under refs/heads/ unless the
\* argument itself starts with refs/, which is sent as it is
C25_CreatesBranchesUnlessRef ==
    (tool = "create-branch" /\ requests # <<>>) =>
        /\ requests[1].method = "POST"
        /\ IF StartsWith(rawArgs.branch, RefsPrefix)
           THEN requests[1].body.ref = rawArgs.branch
           ELSE requests[1].body.ref = RefsHeadsPrefix \o rawArgs.branch

\* C26 as stated: after a non-success response, whatever its body and its
\* rate-limit headers, the call has failed with the error whose message
\* starts with "GitHub API request failed with <status>" for the status of
\* the response: no payload is returned and no other error is thrown.
C26_NonSuccessFails ==
    FailedResponse =>
        /\ outcome.kind = "thrown"
        /\ outcome.error = "Error"
        /\ outcome.text = "GitHub API request failed with <status>"
        /\ outcome.info.status = response.status

\* the part of C26 that holds: a non-success response never yields a
\* payload, and the error is the adapter's own unless the rate-limit reset
\* header does not start with a number
C26_NonSuccessFailsUnlessBadReset ==
    FailedResponse =>
        /\ outcome.kind = "thrown"
        /\ ~(response.remaining = <<"0">> /\ Truthy(response.reset)
                /\ parseInt(response.reset) = NaN)
             => /\ outcome.error = "Error"
                /\ outcome.text = "GitHub API request failed with <status>"
                /\ outcome.info.status = response.status

\* the sender fields of the posted payload; Absent when the key is not there
PayloadSender(key) ==
    IF key \in PayloadKeys THEN PayloadValue(key) ELSE Absent

\* the rich post-message tool has sent its POST
RichMessagePosted ==
    WebhookPosted /\ build = "part_003" /\ tool = "post-message"

\* C27 as stated: in the rich post-message tool the sender shown inside
\* the message, in the context block and in the prefix of the plain-text
\* fallback, is the sender sent in the username / icon_emoji fields of the
\* payload: the text and the blocks are those built for that sender.
C27_ShownSenderIsPayloadSender ==
    RichMessagePosted =>
        LET username == PayloadSender("username")
            iconEmoji == PayloadSender("icon_emoji")
        IN  /\ PayloadValue("text") = buildFallbackText(rawArgs, username, iconEmoji)
            /\ PayloadValue("blocks") = buildRichBlocks(rawArgs, username, iconEmoji)

\* the part of C27 that holds: the two agree when the per-call overrides
\* are absent or have no whitespace at either end
C27_ShownSenderUnlessPadded ==
    (RichMessagePosted
        /\ (rawArgs.username = Absent \/ Trim(rawArgs.username) = rawArgs.username)
        /\ (rawArgs.iconEmoji = Absent \/ Trim(rawArgs.iconEmoji) = rawArgs.iconEmoji))
    => C27_ShownSenderIsPayloadSender


---------------------------------------------------------------------------
(* C28: owner and repo in the request path *)

\* the owner a schema-valid invocation addresses: args.owner ?? defaultOwner
AddressedOwner == Coalesce(rawArgs.owner, config.defaultOwner)

\* the segments of the pathname the i-th request is fetched from
Segments(i) == Split(requests[i].pathname, "/")

\* a value that the URL parser keeps as one path segment
OneSegment(s) ==
    /\ s \notin {<<".">>, <<".", ".">>}
    /\ \A k \in 1..Len(s) : s[k] \notin {"/", "?", "#"}

\* C28 as stated: every request of an owner-taking hosting tool carries
\* the bearer token and is fetched from the operation's path with the
\* owner as its second segment and the repo as its third, nothing in owner
\* or repo having moved the request to another path.
C28_OwnerRepoOneSegmentEach ==
    (server = "gh-mcp" /\ tool \in OwnerTools) =>
        \A i \in 1..Len(requests) :
            /\ requests[i].auth = config.token
            /\ requests[i].pathname = requests[i].path
            /\ Len(Segments(i)) >= 4
            /\ Segments(i)[2] = <<"r", "e", "p", "o", "s">>
            /\ Segments(i)[3] = AddressedOwner
            /\ Segments(i)[4] = rawArgs.repo

\* the part of C28 that holds: the bearer token is always sent, and owner
\* and repo stay one segment each when neither holds a separator or is a
\* dot segment; the path is interpolated as given and parsed as a URL
C28_OneSegmentUnlessSpecial ==
    (server = "gh-mcp" /\ tool \in OwnerTools) =>
        \A i \in 1..Len(requests) :
            /\ requests[i].auth = config.token
            /\ (OneSegment(AddressedOwner) /\ OneSegment(rawArgs.repo)) =>
                   /\ requests[i].pathname = requests[i].path
                   /\ Len(Segments(i)) >= 4
                   /\ Segments(i)[2] = <<"r", "e", "p", "o", "s">>
                   /\ Segments(i)[3] = AddressedOwner
                   /\ Segments(i)[4] = rawArgs.repo


---------------------------------------------------------------------------
(* C29: the subprocess events of one local call *)

\* the position in evs of the first "error" or "close", 0 when there is none
RECURSIVE FirstEnd(_, _)
FirstEnd(evs, k) ==
    IF k > Len(evs) THEN 0
    ELSE IF evs[k].type \in {"error", "close"} THEN k
    ELSE FirstEnd(evs, k + 1)

\* what tool t answers when its local call resolves with the two captured
\* strings, each trimmed
ResolvedWith(t, out, err) ==
    localToolSettle(t, [ok |-> TRUE, stdout |-> Trim(out), stderr |-> Trim(err)])

C29_LateCloseWitness ==
    \E i \in Slots :
        /\ inflight[i].child = "closed"
        /\ FirstEnd(inflight[i].events, 1) < Len(inflight[i].events)
        /\ inflight[i].events[Len(inflight[i].events)].data = "0"
        /\ ErrorOutcome(inflight[i].outcome)


---------------------------------------------------------------------------
(* slack-mcp: termination signals and shutdown (part_004) *)

\* process.once(signal, () => void shutdown(signal)): the listener is
\* removed and shutdown() runs to its first await, transport.close()
shutdown(lc, signal) ==
    [lc EXCEPT !.listeners = @ \ {signal},
               !.runs[signal] = "transport",
               !.calls = Append(@, "transport.close"),
               !.log = Append(@, "Received " \o signal)]

\* a signal is delivered to the running process: its one-shot listener
\* starts a shutdown run; with no listener left for it the signal has its
\* default disposition and terminates the process
Signal(sig) ==
    /\ IF sig \in lifecycle.listeners
       THEN lifecycle' = shutdown(lifecycle, sig) /\ UNCHANGED <<pc, exitCode>>
       ELSE pc' = "exited" /\ exitCode' = sig /\ UNCHANGED lifecycle
    /\ UNCHANGED <<inflight, server, build, env, config, tool, rawArgs, call,
                   requests, spawns, child, stdout, stderr, exit, response,
                   outcome>>

Sigint ==
    /\ server = "slack-mcp" /\ exitCode = "none"
    /\ Signal("SIGINT")

Sigterm ==
    /\ server = "slack-mcp" /\ exitCode = "none"
    /\ Signal("SIGTERM")

\* `await transport.close().catch(log)` of a shutdown run settles, either
\* way, and the run goes on to server.close()
TransportCloseSettled ==
    /\ server = "slack-mcp" /\ exitCode = "none"
    /\ \E sig \in Signals, ok \in BOOLEAN :
          /\ lifecycle.runs[sig] = "transport"
          /\ lifecycle' =
                [lifecycle EXCEPT
                    !.runs[sig] = "server",
                    !.calls = Append(@, "server.close"),
                    !.log = IF ok THEN @
                            ELSE Append(@, "Error closing transport:")]
    /\ UNCHANGED <<inflight, server, build, env, exitCode, config, pc, tool,
                   rawArgs, call, requests, spawns, child, stdout, stderr,
                   exit, response, outcome>>

\* `await server.close().catch(log)` of a shutdown run settles, either way,
\* and the run calls process.exit(0)
ServerCloseSettled ==
    /\ server = "slack-mcp" /\ exitCode = "none"
    /\ \E sig \in Signals, ok \in BOOLEAN :
          /\ lifecycle.runs[sig] = "server"
          /\ lifecycle' =
                [lifecycle EXCEPT
                    !.runs[sig] = "exit",
                    !.log = IF ok THEN @
                            ELSE Append(@, "Error closing server:")]
    /\ pc' = "exited"
    /\ exitCode' = "0"
    /\ UNCHANGED <<inflight, server, build, env, config, tool, rawArgs, call,
                   requests, spawns, child, stdout, stderr, exit, response,
                   outcome>>

InitShutdown ==
    /\ \E e \in SlackEnvs, src \in {"part_003", "server.ts"} :
          Startup("slack-mcp", src, e, SlackResolveConfig(e))
    /\ InitInvocation
    /\ inflight = [i \in Slots |-> IdleInvocation]
    /\ lifecycle = Listening

NextShutdown ==
    \/ Sigint
    \/ Sigterm
    \/ TransportCloseSettled
    \/ ServerCloseSettled

SpecShutdown == InitShutdown /\ [][NextShutdown]_vars

\* how many times a call was made
RECURSIVE Count(_, _)
Count(calls, name) ==
    IF calls = <<>> THEN 0
    ELSE (IF Head(calls) = name THEN 1 ELSE 0) + Count(Tail(calls), name)

\* C30 as stated: whatever termination signals arrive and whenever, the
\* transport is closed at most once and before the server is, the server
\* is closed at most once, and the process ends with exit code 0 whether
\* or not a close failed.
C30_ShutdownOnce ==
    server = "slack-mcp" =>
        /\ Count(lifecycle.calls, "transport.close") <= 1
        /\ Count(lifecycle.calls, "server.close") <= 1
        /\ \A k \in 1..Len(lifecycle.calls) :
              lifecycle.calls[k] = "server.close" =>
                  \E j \in 1..(k - 1) : lifecycle.calls[j] = "transport.close"
        /\ (lifecycle.calls # <<>> /\ exitCode # "none") => exitCode = "0"

\* the part of C30 that holds: each of the two signals starts at most one
\* shutdown run; a run closes the transport, then the server, then exits
\* with code 0 whether or not a close failed; so no server close precedes
\* the first transport close, nothing is closed more than twice, and the
\* exit code is 0 unless a signal arrived whose listener was already used
C30_ShutdownOncePerSignal ==
    server = "slack-mcp" =>
        /\ Count(lifecycle.calls, "transport.close") <= Cardinality(Signals)
        /\ Count(lifecycle.calls, "server.close")
               <= Count(lifecycle.calls, "transport.close")
        /\ \A k \in 1..Len(lifecycle.calls) :
              lifecycle.calls[k] = "server.close" =>
                  \E j \in 1..(k - 1) : lifecycle.calls[j] = "transport.close"
        /\ \A sig \in Signals :
              lifecycle.runs[sig] = "exit" => exitCode = "0"
        /\ exitCode \in {"none", "0", "1"} \cup Signals
        /\ (exitCode \in Signals) => exitCode \notin lifecycle.listeners

\* both signals arrived: two shutdown runs, each of which closed the
\* transport
C30_ClosedTwice ==
    /\ server = "slack-mcp"
    /\ Count(lifecycle.calls, "transport.close") = 2
    /\ exitCode = "0"

====
